---- MODULE Spec2Model ----
(***************************************************************************)
(* Model of the parcel lookup builder of PostTraitementDashboard: the       *)
(* richer of its two builder scripts, with the commune registry, the       *)
(* spelling variants and the source_file fallback.  Spec is a run of its    *)
(* main(); Calls applies its functions, and the file selectors of the      *)
(* simpler builder and of the TypeScript loader, to drawn inputs.          *)
(*                                                                         *)
(* JavaScript strings are sequences of one-character strings, so that      *)
(* trim, toUpperCase, includes and replace are computed, not assumed.      *)
(* JavaScript values are tagged records: t is the typeof tag.              *)
(***************************************************************************)
EXTENDS Integers, Sequences, FiniteSets, TLC

(* ------------------------------------------------------------------ *)
(* Bounds of the model                                                  *)
(* ------------------------------------------------------------------ *)

\* number of features processed one by one in a run
MaxFeatures == 3

\* length of the run of equal features the input may start with
BulkLen == 999

(* ------------------------------------------------------------------ *)
(* JavaScript values and strings                                        *)
(* ------------------------------------------------------------------ *)

Undefined == [t |-> "undefined"]

Null == [t |-> "null"]

Str(s) == [t |-> "string", s |-> s]

Num(n) == [t |-> "number", n |-> n]

Bool(b) == [t |-> "boolean", b |-> b]

\* !!v
Truthy(v) ==
    CASE v.t = "undefined" -> FALSE
      [] v.t = "null" -> FALSE
      [] v.t = "string" -> Len(v.s) > 0
      [] v.t = "number" -> v.n # 0
      [] v.t = "boolean" -> v.b

\* a || b
OrElse(a, b) == IF Truthy(a) THEN a ELSE b

Digits == <<"0","1","2","3","4","5","6","7","8","9">>

RECURSIVE NatToString(_)
NatToString(n) ==
    IF n < 10 THEN <<Digits[n + 1]>>
    ELSE NatToString(n \div 10) \o <<Digits[(n % 10) + 1]>>

\* String(v) for a JSON scalar
String(v) ==
    CASE v.t = "undefined" -> <<"u","n","d","e","f","i","n","e","d">>
      [] v.t = "null" -> <<"n","u","l","l">>
      [] v.t = "string" -> v.s
      [] v.t = "number" ->
           IF v.n < 0 THEN <<"-">> \o NatToString(0 - v.n) ELSE NatToString(v.n)
      [] v.t = "boolean" ->
           IF v.b THEN <<"t","r","u","e">> ELSE <<"f","a","l","s","e">>

LowerCase == <<"a","b","c","d","e","f","g","h","i","j","k","l","m",
               "n","o","p","q","r","s","t","u","v","w","x","y","z">>

UpperCase == <<"A","B","C","D","E","F","G","H","I","J","K","L","M",
               "N","O","P","Q","R","S","T","U","V","W","X","Y","Z">>

LowerToUpper ==
    [c \in {LowerCase[i] : i \in 1..26} |->
        UpperCase[CHOOSE i \in 1..26 : LowerCase[i] = c]]

ToUpperChar(c) == IF c \in DOMAIN LowerToUpper THEN LowerToUpper[c] ELSE c

\* s.toUpperCase()
ToUpperCase(s) == [i \in 1..Len(s) |-> ToUpperChar(s[i])]

WhiteSpace == {" ", "\t", "\n", "\r"}

\* s.trim()
Trim(s) ==
    LET keep == {i \in 1..Len(s) : s[i] \notin WhiteSpace}
    IN  IF keep = {} THEN <<>>
        ELSE LET lo == CHOOSE i \in keep : \A j \in keep : i <= j
                 hi == CHOOSE i \in keep : \A j \in keep : j <= i
             IN  SubSeq(s, lo, hi)

\* hay.includes(needle)
Includes(hay, needle) ==
    \E i \in 0..(Len(hay) - Len(needle)) :
        SubSeq(hay, i + 1, i + Len(needle)) = needle

\* s.replace(/ /g, '_')
ReplaceSpaces(s) == [i \in 1..Len(s) |-> IF s[i] = " " THEN "_" ELSE s[i]]

(* ------------------------------------------------------------------ *)
(* Configuration of the builder                                         *)
(* ------------------------------------------------------------------ *)

OFFICIAL_COMMUNES ==
    << <<"B","A","L","L","O","U">>,
       <<"G","A","B","O","U">>,
       <<"M","O","U","D","E","R","Y">>,
       <<"B","A","L","A">>,
       <<"K","O","A","R">>,
       <<"S","I","N","T","H","I","O","U"," ","M","A","L","E","M","E">>,
       <<"N","D","O","G","A"," ","B","A","B","A","C","A","R">>,
       <<"N","E","T","T","E","B","O","U","L","O","U">>,
       <<"M","I","S","S","I","R","A","H">>,
       <<"B","A","N","D","A","F","A","S","S","I">>,
       <<"D","I","N","D","E","F","E","L","O">>,
       <<"T","O","M","B","O","R","O","N","K","O","T","O">>,
       <<"D","I","M","B","O","L","I">>,
       <<"F","O","N","G","O","L","I","M","B","I">>,
       <<"M","E","D","I","N","A"," ","B","A","F","F","E">>,
       <<"B","E","M","B","O","U">>,
       <<"S","A","B","O","D","A","L","A">> >>

Registry == {OFFICIAL_COMMUNES[i] : i \in 1..Len(OFFICIAL_COMMUNES)}

COMMUNE_SPELLING_VARIANTS ==
    ( <<"D","I","N","D","E","F","E","L","L","O">> :>
          <<"D","I","N","D","E","F","E","L","O">> )
    @@
    ( <<"F","O","N","G","O","L","E","M","B","I">> :>
          <<"F","O","N","G","O","L","I","M","B","I">> )

\* A file name or a glob pattern is the sequence of its parts between the
\* dots: individual_parcels.normalized.geojson is
\* <<"individual_parcels", "normalized", "geojson">>.
\* The pattern list of the richer builder.
preferPatterns ==
    << <<"individual_parcels", "normalized", "source_commune", "geojson">>,
       <<"individual_parcels", "source_commune", "geojson">>,
       <<"collective_parcels", "normalized", "source_commune", "geojson">>,
       <<"collective_parcels", "source_commune", "geojson">>,
       <<"unjoined_parcels", "normalized", "source_commune", "geojson">>,
       <<"unjoined_parcels", "source_commune", "geojson">>,
       <<"individual_parcels", "normalized", "geojson">>,
       <<"collective_parcels", "normalized", "geojson">>,
       <<"unjoined_parcels", "normalized", "geojson">>,
       <<"individual_parcels", "geojson">>,
       <<"collective_parcels", "geojson">>,
       <<"unjoined_parcels", "geojson">> >>

\* the pattern list of the simpler builder
preferPatternsSimple ==
    << <<"collective_parcels", "source_commune", "geojson">>,
       <<"individual_parcels", "source_commune", "geojson">>,
       <<"unjoined_parcels", "source_commune", "geojson">>,
       <<"collective_parcels", "normalized", "source_commune", "geojson">>,
       <<"individual_parcels", "normalized", "source_commune", "geojson">>,
       <<"unjoined_parcels", "normalized", "source_commune", "geojson">>,
       <<"collective_parcels", "normalized", "geojson">>,
       <<"individual_parcels", "normalized", "geojson">>,
       <<"unjoined_parcels", "normalized", "geojson">>,
       <<"collective_parcels", "geojson">>,
       <<"individual_parcels", "geojson">>,
       <<"unjoined_parcels", "geojson">> >>

\* the pattern list of the TypeScript loader
preferPatternsLoader ==
    << <<"*", "source_commune", "geojson">>,
       <<"*", "normalized", "source_commune", "geojson">>,
       <<"*", "normalized", "geojson">>,
       <<"*", "geojson">> >>

\* the cap of a commune's parcels array
ParcelsCap == 1000

\* Names every plain object inherits from Object.prototype; a read obj[k] of
\* such a name finds the inherited member when obj has no own property k.
ObjectPrototypeKeys == { <<"c","o","n","s","t","r","u","c","t","o","r">> }

(* ------------------------------------------------------------------ *)
(* Pure functions of the builder                                        *)
(* ------------------------------------------------------------------ *)

\* props[k] on a parsed JSON object (the keys read are never inherited ones)
Prop(props, k) == IF k \in DOMAIN props THEN props[k] ELSE Undefined

\* normalizeName without the trim
normalizeNameUntrimmed(v) ==
    IF ~Truthy(v) THEN Null
    ELSE LET normalized == ToUpperCase(String(v))
         IN  IF normalized \in DOMAIN COMMUNE_SPELLING_VARIANTS
             THEN Str(COMMUNE_SPELLING_VARIANTS[normalized])
             ELSE Str(normalized)

\* normalizeName without the table of spelling variants
normalizeNameNoVariants(v) ==
    IF ~Truthy(v) THEN Null ELSE Str(ToUpperCase(Trim(String(v))))

\* The variant table is a plain object, but its lookup key is upper-cased and
\* every member name of Object.prototype has a lower-case letter: the lookup
\* never finds an inherited member.
normalizeName(v) ==
    IF ~Truthy(v) THEN Null
    ELSE LET normalized == ToUpperCase(Trim(String(v)))
         IN  IF normalized \in DOMAIN COMMUNE_SPELLING_VARIANTS
                 /\ Len(COMMUNE_SPELLING_VARIANTS[normalized]) > 0
             THEN Str(COMMUNE_SPELLING_VARIANTS[normalized])
             ELSE Str(normalized)

NumParcelKeys ==
    <<"Num_parcel", "NUM_PARCEL", "num_parcel", "numParcel", "num",
      "ID", "id", "Id_parcel", "IDPARCEL">>

\* findNumParcel with the last listed key winning over an earlier one
findNumParcelLastKeyWins(props) ==
    LET hits == {i \in 1..Len(NumParcelKeys) : Truthy(Prop(props, NumParcelKeys[i]))}
    IN  IF hits = {} THEN Null
        ELSE LET last == CHOOSE i \in hits : \A j \in hits : j <= i
             IN  Str(String(props[NumParcelKeys[last]]))

findNumParcel(props) ==
    LET hits == {i \in 1..Len(NumParcelKeys) : Truthy(Prop(props, NumParcelKeys[i]))}
    IN  IF hits = {} THEN Null
        ELSE LET first == CHOOSE i \in hits : \A j \in hits : i <= j
             IN  Str(String(props[NumParcelKeys[first]]))

\* extractCommuneFromSourceFile with one loop that tries both forms of a name
extractCommuneOnePass(sourceFile) ==
    IF ~Truthy(sourceFile) THEN Null
    ELSE LET normalized == ToUpperCase(String(sourceFile))
             either == {i \in 1..Len(OFFICIAL_COMMUNES) :
                           \/ Includes(normalized, OFFICIAL_COMMUNES[i])
                           \/ Includes(normalized, ReplaceSpaces(OFFICIAL_COMMUNES[i]))}
         IN  IF either # {}
             THEN Str(OFFICIAL_COMMUNES[CHOOSE i \in either : \A j \in either : i <= j])
             ELSE Null

extractCommuneFromSourceFile(sourceFile) ==
    IF ~Truthy(sourceFile) THEN Null
    ELSE LET normalized == ToUpperCase(String(sourceFile))
             exact == {i \in 1..Len(OFFICIAL_COMMUNES) :
                          Includes(normalized, OFFICIAL_COMMUNES[i])}
             under == {i \in 1..Len(OFFICIAL_COMMUNES) :
                          Includes(normalized, ReplaceSpaces(OFFICIAL_COMMUNES[i]))}
         IN  IF exact # {}
             THEN Str(OFFICIAL_COMMUNES[CHOOSE i \in exact : \A j \in exact : i <= j])
             ELSE IF under # {}
             THEN Str(OFFICIAL_COMMUNES[CHOOSE i \in under : \A j \in under : i <= j])
             ELSE Null

\* resolveCommune with CCRCA tried before commune
resolveCommuneCCRCAFirst(props) ==
    LET direct == normalizeName(
                      OrElse(Prop(props, "CCRCA"),
                      OrElse(Prop(props, "commune"),
                      OrElse(Prop(props, "CCRCA_1"),
                      OrElse(Prop(props, "CAV"),
                      OrElse(Prop(props, "Nom"), Prop(props, "name")))))))
    IN  IF ~Truthy(direct) /\ Truthy(Prop(props, "source_file"))
        THEN extractCommuneFromSourceFile(props["source_file"])
        ELSE direct

\* lines 136-148 of main: the commune of a feature's property bag
resolveCommune(props) ==
    LET direct == normalizeName(
                      OrElse(Prop(props, "commune"),
                      OrElse(Prop(props, "CCRCA"),
                      OrElse(Prop(props, "CCRCA_1"),
                      OrElse(Prop(props, "CAV"),
                      OrElse(Prop(props, "Nom"), Prop(props, "name")))))))
    IN  IF ~Truthy(direct) /\ Truthy(Prop(props, "source_file"))
        THEN extractCommuneFromSourceFile(props["source_file"])
        ELSE direct

(* ------------------------------------------------------------------ *)
(* The input: the parcels directory and the features of its files       *)
(* ------------------------------------------------------------------ *)

\* What a file of the parcels directory is: absent; present but failing
\* readFileSync; invalid JSON; the JSON document null; a feature collection.
FileKinds == {"absent", "unreadable", "invalid", "nullroot", "ok"}

\* The file names the model lets exist: the most processed and the plain
\* export of one parcel category, which overlap in the parcels they hold.
DirNames == {preferPatterns[1], preferPatterns[10]}

IdA1 == <<"A","1">>

IdB2 == <<"B","2">>

\* the property bags the model draws the features of a file from
FeaturePool ==
    { ("Num_parcel" :> Str(IdA1)) @@ ("commune" :> Str(<<"d","i","n","d","e","f","e","l","l","o">>)),
      ("Num_parcel" :> Str(IdA1)),
      ("IDPARCEL" :> Str(IdB2)) @@ ("CCRCA" :> Str(<<"K","O","A","R">>)),
      ("Num_parcel" :> Str(IdA1)) @@ ("CCRCA" :> Str(<<" ","K","o","a","r">>)) @@ ("Nom" :> Str(<<"x">>)),
      ("commune" :> Str(<<"K","O","A","R">>)),
      ("num" :> Str(IdA1)) @@ ("Nom" :> Str(<<"F","o","o">>)),
      ("Num_parcel" :> Str(<<"c","o","n","s","t","r","u","c","t","o","r">>))
          @@ ("commune" :> Str(<<"K","O","A","R">>)),
      ("ID" :> Str(<<"c","o","n","s","t","r","u","c","t","o","r">>)) }

\* the feature the input may repeat BulkLen times at its start
BulkFeature == ("IDPARCEL" :> Str(IdB2)) @@ ("CCRCA" :> Str(<<"K","O","A","R">>))

(* ------------------------------------------------------------------ *)
(* State                                                                *)
(* ------------------------------------------------------------------ *)

VARIABLES
    disk,             \* the parcels directory: file name -> kind
    pc,               \* where main() is
    files,            \* const files = findParcelFiles()
    fileIdx,          \* position of the for (const f of files) loop
    numParcelMap,     \* own properties of numParcelMap
    communeMap,       \* own properties of communeMap
    inheritedCommune, \* the commune property set on an inherited member
    outNum,           \* num_parcel_lookup.json on disk
    outComm,          \* commune_lookup.json on disk
    failure,          \* the uncaught exception that ended the run, if any
    log,              \* history: the features processed so far
    call              \* a call of one function of the builder, apart from a run

\* the simpler builder, run next to the richer one on the same features
VARIABLES
    simple            \* its numParcelMap, communeMap and output files

\* the API server (build-netlify.js) and the dashboard's static fallback
VARIABLES
    lookupFiles,      \* the two lookup files as the server finds them
    parcelLookup,     \* let parcelLookup
    communeLookup,    \* let communeLookup
    reads,            \* history: the readFileSync calls made per lookup file
    served,           \* history: the requests served that need each lookup file
    answer,           \* the last answer of the server
    staticAnswer      \* the last result of the dashboard's static fallback

\* the dashboard: the AI query form, the analytics table and the modals
VARIABLES
    isQueryInProgress, \* let isQueryInProgress
    aiMessage,         \* the type showAiMessage was last called with
    lastClick,         \* history: the last header click and the sort before it
    running,           \* the processQuery calls that await something
    started,           \* history: the requests sent to /ai/analyze
    sortColumn,        \* let sortColumn
    sortDirection,     \* let sortDirection
    sortListeners,     \* the click listeners on each header of the table
    tableLoads,        \* the initDataTable calls that await their data
    activeClass,       \* the modal elements that carry the class active
    activeModal        \* let activeModal

\* the store (store.js)
VARIABLES
    storeState,       \* own properties of this._state
    registered,       \* history: the keys register was called with
    storeListeners,   \* own properties of this._listeners
    notified,         \* history: the callbacks the last operation invoked
    returned          \* history: the outcome of the last operation

\* the state of a run of main()
run == <<disk, pc, files, fileIdx, numParcelMap, communeMap, inheritedCommune,
         outNum, outComm, failure, log>>

api == <<lookupFiles, parcelLookup, communeLookup, reads, served, answer, staticAnswer>>

dashboard == <<isQueryInProgress, aiMessage, running, started, sortColumn,
               sortDirection, sortListeners, tableLoads, lastClick, activeClass,
               activeModal>>

storeVars == <<storeState, registered, storeListeners, notified, returned>>

vars == <<run, call, simple, api, dashboard, storeVars>>

\* what a run of the richer builder leaves alone
aside == <<call, simple, api, dashboard, storeVars>>

\* the simpler builder is not run
SimpleIdle == simple = [state |-> "idle"]

\* the server is not started
ApiIdle ==
    /\ lookupFiles = [state |-> "idle"]
    /\ parcelLookup = Null
    /\ communeLookup = Null
    /\ reads = [parcel |-> 0, commune |-> 0]
    /\ served = [parcel |-> 0, commune |-> 0]
    /\ answer = [status |-> 0]
    /\ staticAnswer = [state |-> "none"]

\* the dashboard as loaded, before any event
DashboardIdle ==
    /\ isQueryInProgress = FALSE
    /\ aiMessage = "none"
    /\ running = <<>>
    /\ started = 0
    /\ sortColumn = "name"
    /\ sortDirection = "asc"
    /\ sortListeners = 0
    /\ tableLoads = 0
    /\ lastClick = [column |-> "none"]
    /\ activeClass = {}
    /\ activeModal = "null"

\* the store as constructed
StoreIdle ==
    /\ storeState = <<>>
    /\ registered = {}
    /\ storeListeners = <<>>
    /\ notified = <<>>
    /\ returned = [calls |-> 0]

\* no function is called apart from the run
NoCall == [fn |-> "none"]

\* an output file a previous run left
Previous == [state |-> "previous"]

Written(content) == [state |-> "written", content |-> content]

(* ------------------------------------------------------------------ *)
(* findParcelFiles                                                      *)
(* ------------------------------------------------------------------ *)

\* minimatch of a file name against a pattern.  A pattern without * matches
\* the file of that name.  The * of the loader's patterns stands first and
\* matches any non-empty run of characters, dots included, that does not
\* start with a dot.
Matches(pat, name) ==
    IF pat # <<>> /\ Head(pat) = "*"
    THEN /\ Len(name) >= Len(pat)
         /\ name[1] # ""
         /\ SubSeq(name, Len(name) - Len(pat) + 2, Len(name)) = Tail(pat)
    ELSE name = pat

\* glob.sync(path.join(PARCELS_DIR, pat)) over the listing of the directory:
\* the names that match, in the order of the listing
GlobSync(listing, pat) == SelectSeq(listing, LAMBDA name : Matches(pat, name))

SeqIncludes(s, x) == \E i \in 1..Len(s) : s[i] = x

\* the inner loop without the found.includes test
PushAll(found, matches) == found \o matches

\* for (const m of matches) if (!found.includes(m)) found.push(m)
RECURSIVE PushNew(_, _)
PushNew(found, matches) ==
    IF matches = <<>> THEN found
    ELSE PushNew(IF SeqIncludes(found, Head(matches)) THEN found
                 ELSE Append(found, Head(matches)),
                 Tail(matches))

\* for (const pat of patterns), from the i-th pattern on
RECURSIVE FindFrom(_, _, _, _)
FindFrom(patterns, listing, i, found) ==
    IF i > Len(patterns) THEN found
    ELSE FindFrom(patterns, listing, i + 1,
                  PushNew(found, GlobSync(listing, patterns[i])))

\* findParcelFiles of the richer builder
findParcelFiles(listing) == FindFrom(preferPatterns, listing, 1, <<>>)

\* findParcelFiles of the simpler builder
findParcelFilesSimple(listing) == FindFrom(preferPatternsSimple, listing, 1, <<>>)

\* findParcelFiles of the TypeScript loader
findParcelFilesLoader(listing) == FindFrom(preferPatternsLoader, listing, 1, <<>>)

\* the listing of the parcels directory: the files that exist, by name
ReadDir(d) ==
    SelectSeq(<<preferPatterns[10], preferPatterns[1]>>, LAMBDA name : d[name] # "absent")

(* ------------------------------------------------------------------ *)
(* One iteration of the feature loop (lines 131-166)                    *)
(* ------------------------------------------------------------------ *)

\* numParcelMap[num]: truthy when num is an own key or an inherited member
HasRecord(npm, num) == num \in DOMAIN npm \/ num \in ObjectPrototypeKeys

\* numParcelMap[num].commune
StoredCommune(npm, inh, num) ==
    IF num \in DOMAIN npm THEN npm[num].commune ELSE inh[num]

\* numParcelMap[num] = { commune: commune || null, properties: props }
NewRecord(commune, props) ==
    [commune |-> OrElse(commune, Null), properties |-> props]

\* MergeParcel with the last non-null commune winning over a stored one
MergeParcelLastWins(npm, inh, num, commune, props) ==
    IF ~HasRecord(npm, num)
    THEN [npm |-> npm @@ (num :> NewRecord(commune, props)), inh |-> inh]
    ELSE IF Truthy(commune)
    THEN IF num \in DOMAIN npm
         THEN [npm |-> [npm EXCEPT ![num].commune = commune], inh |-> inh]
         ELSE [npm |-> npm, inh |-> [inh EXCEPT ![num] = commune]]
    ELSE [npm |-> npm, inh |-> inh]

\* lines 154-159: the parcel map and the inherited members after a sighting
MergeParcel(npm, inh, num, commune, props) ==
    IF ~HasRecord(npm, num)
    THEN [npm |-> npm @@ (num :> NewRecord(commune, props)), inh |-> inh]
    ELSE IF ~Truthy(StoredCommune(npm, inh, num)) /\ Truthy(commune)
    THEN IF num \in DOMAIN npm
         THEN [npm |-> [npm EXCEPT ![num].commune = commune], inh |-> inh]
         ELSE [npm |-> npm, inh |-> [inh EXCEPT ![num] = commune]]
    ELSE [npm |-> npm, inh |-> inh]

\* Aggregate keeping the newest identifiers once the cap is reached
AggregateNewestKept(cm, num, commune) ==
    IF Truthy(commune) /\ commune.s \in DOMAIN cm
    THEN [cm EXCEPT ![commune.s] =
            [count |-> @.count + 1,
             parcels |-> IF Len(@.parcels) < ParcelsCap
                         THEN Append(@.parcels, num)
                         ELSE Append(Tail(@.parcels), num)]]
    ELSE cm

\* Aggregate without the cap on parcels
AggregateUncapped(cm, num, commune) ==
    IF Truthy(commune) /\ commune.s \in DOMAIN cm
    THEN [cm EXCEPT ![commune.s] =
            [count |-> @.count + 1, parcels |-> Append(@.parcels, num)]]
    ELSE cm

\* Aggregate counting an identifier once per commune
AggregateDeduplicated(cm, num, commune) ==
    IF Truthy(commune) /\ commune.s \in DOMAIN cm
    THEN IF \E i \in 1..Len(cm[commune.s].parcels) : cm[commune.s].parcels[i] = num
         THEN cm
         ELSE [cm EXCEPT ![commune.s] =
                 [count |-> @.count + 1,
                  parcels |-> IF Len(@.parcels) < ParcelsCap
                              THEN Append(@.parcels, num) ELSE @.parcels]]
    ELSE cm

\* Aggregate creating the entry of a commune it does not know, as the simpler
\* builder does
AggregateAnyName(cm, num, commune) ==
    IF Truthy(commune)
    THEN LET known == IF commune.s \in DOMAIN cm THEN cm
                      ELSE cm @@ (commune.s :> [count |-> 0, parcels |-> <<>>])
         IN  [known EXCEPT ![commune.s] =
                [count |-> @.count + 1,
                 parcels |-> IF Len(@.parcels) < ParcelsCap
                             THEN Append(@.parcels, num) ELSE @.parcels]]
    ELSE cm

\* lines 161-164.  commune is upper-cased, so communeMap[commune] never finds
\* an inherited member: it is truthy exactly for an own key.
Aggregate(cm, num, commune) ==
    IF Truthy(commune) /\ commune.s \in DOMAIN cm
    THEN [cm EXCEPT ![commune.s] =
            [count |-> @.count + 1,
             parcels |-> IF Len(@.parcels) < ParcelsCap
                         THEN Append(@.parcels, num) ELSE @.parcels]]
    ELSE cm

\* FeatureStep without the if (num) guard: a feature without identifier is
\* indexed under String(null)
FeatureStepUnguarded(st, props) ==
    LET num == Str(String(findNumParcel(props)))
        commune == resolveCommune(props)
        m == MergeParcel(st.npm, st.inh, num.s, commune, props)
    IN  [npm |-> m.npm, inh |-> m.inh, cm |-> Aggregate(st.cm, num.s, commune)]

\* the loop body on one feature's property bag
FeatureStep(st, props) ==
    LET num == findNumParcel(props)
        commune == resolveCommune(props)
    IN  IF Truthy(num)
        THEN LET m == MergeParcel(st.npm, st.inh, num.s, commune, props)
             IN  [npm |-> m.npm, inh |-> m.inh, cm |-> Aggregate(st.cm, num.s, commune)]
        ELSE st

(* ------------------------------------------------------------------ *)
(* main()                                                               *)
(* ------------------------------------------------------------------ *)

Init ==
    /\ disk \in [DirNames -> FileKinds]
    /\ pc = "start"
    /\ files = <<>>
    /\ fileIdx = 1
    /\ numParcelMap = <<>>
    /\ communeMap = <<>>
    /\ inheritedCommune = [k \in ObjectPrototypeKeys |-> Undefined]
    /\ outNum = Previous
    /\ outComm = Previous
    /\ failure = "none"
    /\ log = <<>>
    /\ call = NoCall
    /\ SimpleIdle
    /\ ApiIdle
    /\ DashboardIdle
    /\ StoreIdle

\* communeMap left empty, as the simpler builder leaves it
EmptyCommuneMap == <<>>

\* lines 107-112: the zeroed aggregate of every official commune
InitialCommuneMap ==
    [c \in Registry |-> [count |-> 0, parcels |-> <<>>]]

\* lines 102-112: the file list and the initial aggregates
Start ==
    /\ pc = "start"
    /\ files' = findParcelFiles(ReadDir(disk))
    /\ communeMap' = InitialCommuneMap
    /\ pc' = "files"
    /\ UNCHANGED <<aside, disk, fileIdx, numParcelMap, inheritedCommune, outNum, outComm,
                   failure, log>>

AtFile == pc = "files" /\ fileIdx <= Len(files)

Crash(why) ==
    /\ pc' = "crashed"
    /\ failure' = why
    /\ UNCHANGED <<aside, disk, files, fileIdx, numParcelMap, communeMap, inheritedCommune,
                   outNum, outComm, log>>

\* line 102: the output directory cannot be created
MkdirFails == pc = "start" /\ Crash("mkdir")

\* line 116: readFileSync throws, outside any try
ReadFails == AtFile /\ disk[files[fileIdx]] = "unreadable" /\ Crash("read")

\* JSON.parse outside the try: the exception ends the run
InvalidJsonAborts == AtFile /\ disk[files[fileIdx]] = "invalid" /\ Crash("parse")

\* lines 118-123: JSON.parse throws, the file is skipped
SkipInvalidJson ==
    /\ AtFile
    /\ disk[files[fileIdx]] = "invalid"
    /\ fileIdx' = fileIdx + 1
    /\ UNCHANGED <<aside, disk, pc, files, numParcelMap, communeMap, inheritedCommune,
                   outNum, outComm, failure, log>>

\* line 125: gj is null, gj.features throws a TypeError
NullDocument == AtFile /\ disk[files[fileIdx]] = "nullroot" /\ Crash("type")

\* lines 119, 125: the file parses and its feature loop starts
OpenFile ==
    /\ AtFile
    /\ disk[files[fileIdx]] = "ok"
    /\ pc' = "features"
    /\ UNCHANGED <<aside, disk, files, fileIdx, numParcelMap, communeMap, inheritedCommune,
                   outNum, outComm, failure, log>>

State == [npm |-> numParcelMap, inh |-> inheritedCommune, cm |-> communeMap]

\* the input starts with a run of equal features that is not complete yet
InBulk == log # <<>> /\ log[1].bulk /\ log[1].n < BulkLen

\* the features processed one by one, the run of equal features apart
Processed == Len(SelectSeq(log, LAMBDA e : ~e.bulk))

Apply(props) ==
    LET st == FeatureStep(State, props)
    IN  /\ numParcelMap' = st.npm
        /\ inheritedCommune' = st.inh
        /\ communeMap' = st.cm
        /\ UNCHANGED <<aside, disk, pc, files, fileIdx, outNum, outComm, failure>>

\* lines 131-166, one feature
ProcessFeature ==
    /\ pc = "features"
    /\ ~InBulk
    /\ Processed < MaxFeatures
    /\ \E props \in FeaturePool :
          /\ Apply(props)
          /\ log' = Append(log, [file |-> fileIdx, props |-> props, n |-> 1,
                                 bulk |-> FALSE])

\* lines 131-166, one feature of the run of BulkLen equal features the first
\* parsed file may start with
ProcessBulk ==
    /\ pc = "features"
    /\ log = <<>> \/ InBulk
    /\ Apply(BulkFeature)
    /\ log' = IF log = <<>>
              THEN <<[file |-> fileIdx, props |-> BulkFeature, n |-> 1, bulk |-> TRUE]>>
              ELSE [log EXCEPT ![1].n = @ + 1]

\* EndOfFile writing both lookups after each file
EndOfFileFlushes ==
    /\ pc = "features"
    /\ ~InBulk
    /\ pc' = "files"
    /\ fileIdx' = fileIdx + 1
    /\ outNum' = Written(numParcelMap)
    /\ outComm' = Written(communeMap)
    /\ UNCHANGED <<aside, disk, files, numParcelMap, communeMap, inheritedCommune,
                   failure, log>>

\* the feature loop of the file ends
EndOfFile ==
    /\ pc = "features"
    /\ ~InBulk
    /\ pc' = "files"
    /\ fileIdx' = fileIdx + 1
    /\ UNCHANGED <<aside, disk, files, numParcelMap, communeMap, inheritedCommune,
                   outNum, outComm, failure, log>>

\* line 179
WriteNumOut ==
    /\ pc = "files"
    /\ fileIdx > Len(files)
    /\ outNum' = Written(numParcelMap)
    /\ pc' = "writeComm"
    /\ UNCHANGED <<aside, disk, files, fileIdx, numParcelMap, communeMap, inheritedCommune,
                   outComm, failure, log>>

\* line 180
WriteCommOut ==
    /\ pc = "writeComm"
    /\ outComm' = Written(communeMap)
    /\ pc' = "done"
    /\ UNCHANGED <<aside, disk, files, fileIdx, numParcelMap, communeMap, inheritedCommune,
                   outNum, failure, log>>

\* lines 179-180: writeFileSync throws
WriteFails ==
    /\ \/ pc = "files" /\ fileIdx > Len(files)
       \/ pc = "writeComm"
    /\ Crash("write")

Next ==
    \/ Start
    \/ MkdirFails
    \/ ReadFails
    \/ SkipInvalidJson
    \/ NullDocument
    \/ OpenFile
    \/ ProcessFeature
    \/ ProcessBulk
    \/ EndOfFile
    \/ WriteNumOut
    \/ WriteCommOut
    \/ WriteFails

Spec == Init /\ [][Next]_vars

(* ------------------------------------------------------------------ *)
(* The functions of the builder, called one at a time on drawn inputs   *)
(* ------------------------------------------------------------------ *)

\* length of the strings drawn over NameAlphabet
MaxLen == 2

\* number of keys of the property bags drawn
MaxKeys == 2

\* number of files of the directory listings drawn
MaxDir == 3

NameAlphabet == {" ", "a", "B"}

RECURSIVE StringsUpTo(_)
StringsUpTo(n) ==
    IF n = 0 THEN {<<>>}
    ELSE LET shorter == StringsUpTo(n - 1)
         IN  shorter \cup {Append(s, c) : s \in shorter, c \in NameAlphabet}

\* spellings of commune names as the exports carry them
NamedStrings ==
    { <<"d","i","n","d","e","f","e","l","l","o">>,
      <<" ","D","i","n","d","e","F","e","l","l","o","\t">>,
      <<"F","O","N","G","O","L","E","M","B","I">>,
      <<"f","o","n","g","o","l","e","m","b","i"," ">>,
      <<"D","i","n","d","e","f","e","l","o">>,
      <<"s","i","n","t","h","i","o","u"," ","m","a","l","e","m","e">>,
      <<"F","o","o">>,
      <<" ","\t"," ">> }

\* a raw commune value: absence, a string or another JSON scalar
NameInputs ==
    {Null, Undefined, Num(0), Num(7), Num(0 - 12), Bool(TRUE), Bool(FALSE)}
    \cup {Str(s) : s \in StringsUpTo(MaxLen) \cup NamedStrings \cup Registry}

\* source_file hints
SourceFileHints ==
    { <<"u","n","j","o","i","n","e","d","_","p","a","r","c","e","l","s","_","S","I","N","T","H","I","O","U","_","M","A","L","E","M","E",".","g","e","o","j","s","o","n">>,
      <<"p","a","r","c","e","l","s","_","k","o","a","r",".","g","e","o","j","s","o","n">>,
      <<"s","i","n","t","h","i","o","u"," ","m","a","l","e","m","e",".","g","e","o","j","s","o","n">>,
      <<"K","O","A","R","_","B","A","L","A",".","g","e","o","j","s","o","n">>,
      <<"S","I","N","T","H","I","O","U","_","M","A","L","E","M","E","_","M","I","S","S","I","R","A","H",".","g","e","o","j","s","o","n">>,
      <<"m","e","d","i","n","a","_","b","a","f","f","e","_","n","d","o","g","a","_","b","a","b","a","c","a","r",".","g","e","o","j","s","o","n">>,
      <<"p","a","r","c","e","l","s","_","D","I","N","D","E","F","E","L","L","O",".","g","e","o","j","s","o","n">>,
      <<"f","o","n","g","o","l","e","m","b","i",".","g","e","o","j","s","o","n">>,
      <<"p","a","r","c","e","l","s",".","g","e","o","j","s","o","n">> }

SourceFileInputs ==
    {Null, Undefined, Num(5), Str(<<>>)} \cup {Str(s) : s \in SourceFileHints}

\* the property bags with at most n of the keys, their values drawn from values
Bags(keys, values, n) ==
    UNION {[ks -> values] : ks \in {k \in SUBSET keys : Cardinality(k) <= n}}

IdValues == {Str(IdA1), Str(IdB2), Str(<<>>), Num(0), Num(12), Null}

IdBags == Bags({NumParcelKeys[i] : i \in 1..Len(NumParcelKeys)}, IdValues, MaxKeys)

CommuneFields == <<"commune", "CCRCA", "CCRCA_1", "CAV", "Nom", "name">>

CommuneValues ==
    {Str(<<"K","O","A","R">>), Str(<<"b","a","l","a"," ">>), Str(<<" ">>),
     Str(<<"d","i","n","d","e","f","e","l","l","o">>), Str(<<>>), Null}

HintValues ==
    {Str(<<"u","n","j","o","i","n","e","d","_","p","a","r","c","e","l","s","_","S","I","N","T","H","I","O","U","_","M","A","L","E","M","E",".","g","e","o","j","s","o","n">>),
     Str(<<"p","a","r","c","e","l","s","_","k","o","a","r",".","g","e","o","j","s","o","n">>),
     Str(<<"p","a","r","c","e","l","s","_","D","I","N","D","E","F","E","L","L","O",".","g","e","o","j","s","o","n">>)}

\* property bags with direct commune fields, with and without a source_file
CommuneBags ==
    LET direct == Bags({CommuneFields[i] : i \in 1..Len(CommuneFields)},
                       CommuneValues, MaxKeys)
    IN  direct \cup {b @@ ("source_file" :> h) : b \in direct, h \in HintValues}

\* the files a parcels directory may hold
FileNames ==
    { <<"individual_parcels", "normalized", "source_commune", "geojson">>,
      <<"individual_parcels", "source_commune", "geojson">>,
      <<"individual_parcels", "normalized", "geojson">>,
      <<"individual_parcels", "geojson">>,
      <<"unjoined_parcels", "geojson">>,
      <<"README", "md">> }

\* the listings of at most n files, in any order
RECURSIVE Listings(_)
Listings(n) ==
    IF n = 0 THEN {<<>>}
    ELSE LET shorter == Listings(n - 1)
         IN  shorter \cup {Append(l, f) : l \in shorter, f \in FileNames}

Distinct(l) == \A i, j \in 1..Len(l) : i # j => l[i] # l[j]

Builders == {"richer", "simpler", "loader"}

Called(fn, arg) == [fn |-> fn, arg |-> arg, stage |-> 0, ret |-> Undefined,
                    again |-> Undefined]

CallsInit ==
    /\ disk = [name \in DirNames |-> "absent"]
    /\ pc = "start"
    /\ files = <<>>
    /\ fileIdx = 1
    /\ numParcelMap = <<>>
    /\ communeMap = <<>>
    /\ inheritedCommune = [k \in ObjectPrototypeKeys |-> Undefined]
    /\ outNum = Previous
    /\ outComm = Previous
    /\ failure = "none"
    /\ log = <<>>
    /\ SimpleIdle
    /\ ApiIdle
    /\ DashboardIdle
    /\ StoreIdle
    /\ \/ \E v \in NameInputs : call = Called("normalizeName", v)
       \/ \E props \in IdBags : call = Called("findNumParcel", props)
       \/ \E v \in SourceFileInputs : call = Called("extractCommuneFromSourceFile", v)
       \/ \E props \in CommuneBags : call = Called("resolveCommune", props)
       \/ \E b \in Builders : \E l \in {x \in Listings(MaxDir) : Distinct(x)} :
             call = Called("findParcelFiles", [builder |-> b, listing |-> l])

\* the call as it is once the function has returned ret
Return(ret) == [call EXCEPT !.ret = ret, !.stage = 1]

CallNormalizeName ==
    /\ call.fn = "normalizeName"
    /\ call.stage = 0
    /\ call' = Return(normalizeName(call.arg))
    /\ UNCHANGED <<run, simple, api, dashboard, storeVars>>

\* the value returned is canonicalized once more
CallNormalizeNameAgain ==
    /\ call.fn = "normalizeName"
    /\ call.stage = 1
    /\ call' = [call EXCEPT !.again = normalizeName(call.ret), !.stage = 2]
    /\ UNCHANGED <<run, simple, api, dashboard, storeVars>>

CallFindNumParcel ==
    /\ call.fn = "findNumParcel"
    /\ call.stage = 0
    /\ call' = Return(findNumParcel(call.arg))
    /\ UNCHANGED <<run, simple, api, dashboard, storeVars>>

CallExtractCommuneFromSourceFile ==
    /\ call.fn = "extractCommuneFromSourceFile"
    /\ call.stage = 0
    /\ call' = Return(extractCommuneFromSourceFile(call.arg))
    /\ UNCHANGED <<run, simple, api, dashboard, storeVars>>

CallResolveCommune ==
    /\ call.fn = "resolveCommune"
    /\ call.stage = 0
    /\ call' = Return(resolveCommune(call.arg))
    /\ UNCHANGED <<run, simple, api, dashboard, storeVars>>

CallFindParcelFiles ==
    /\ call.fn = "findParcelFiles"
    /\ call.stage = 0
    /\ call' = Return(
          CASE call.arg.builder = "richer" -> findParcelFiles(call.arg.listing)
            [] call.arg.builder = "simpler" -> findParcelFilesSimple(call.arg.listing)
            [] call.arg.builder = "loader" -> findParcelFilesLoader(call.arg.listing))
    /\ UNCHANGED <<run, simple, api, dashboard, storeVars>>

CallsNext ==
    \/ CallNormalizeName
    \/ CallNormalizeNameAgain
    \/ CallFindNumParcel
    \/ CallExtractCommuneFromSourceFile
    \/ CallResolveCommune
    \/ CallFindParcelFiles

Calls == CallsInit /\ [][CallsNext]_vars

\* the call of fn has returned
Returned(fn) == call.fn = fn /\ call.stage >= 1

(* ------------------------------------------------------------------ *)
(* The simpler builder, run in step with the richer one                 *)
(* ------------------------------------------------------------------ *)

\* the simpler builder's normalizeName without the trim
normalizeNameSimpleUntrimmed(v) ==
    IF ~Truthy(v) THEN Null ELSE Str(ToUpperCase(String(v)))

\* normalizeName of the simpler builder and of the TypeScript loader
normalizeNameSimple(v) ==
    IF ~Truthy(v) THEN Null ELSE Str(ToUpperCase(Trim(String(v))))

\* the commune of a feature's property bag in the simpler builder
resolveCommuneSimple(props) ==
    normalizeNameSimple(
        OrElse(Prop(props, "commune"),
        OrElse(Prop(props, "CCRCA"),
        OrElse(Prop(props, "CCRCA_1"),
        OrElse(Prop(props, "CAV"),
        OrElse(Prop(props, "Nom"), Prop(props, "name")))))))

\* The aggregate step of the simpler builder: the entry of a commune is
\* created at its first sighting.  commune is upper-cased, so
\* communeMap[commune] never finds an inherited member.
AggregateSimple(cm, num, commune) ==
    IF Truthy(commune)
    THEN LET known == IF commune.s \in DOMAIN cm THEN cm
                      ELSE cm @@ (commune.s :> [count |-> 0, parcels |-> <<>>])
         IN  [known EXCEPT ![commune.s] =
                [count |-> @.count + 1,
                 parcels |-> IF Len(@.parcels) < ParcelsCap
                             THEN Append(@.parcels, num) ELSE @.parcels]]
    ELSE cm

\* the loop body of the simpler builder on one feature's property bag
FeatureStepSimple(st, props) ==
    LET num == findNumParcel(props)
        commune == resolveCommuneSimple(props)
    IN  IF Truthy(num)
        THEN LET m == MergeParcel(st.npm, st.inh, num.s, commune, props)
             IN  [npm |-> m.npm, inh |-> m.inh,
                  cm |-> AggregateSimple(st.cm, num.s, commune)]
        ELSE st

\* the property bags both builders are run on
SharedPool ==
    FeaturePool
    \cup { ("Num_parcel" :> Str(IdB2))
              @@ ("source_file" :> Str(<<"p","a","r","c","e","l","s","_","k","o","a","r">>)),
           ("Num_parcel" :> Str(IdB2))
              @@ ("name" :> Str(<<"b","a","l","a"," ">>))
              @@ ("source_file" :> Str(<<"p","a","r","c","e","l","s">>)) }

BothInit ==
    /\ disk = [name \in DirNames |-> "ok"]
    /\ pc = "start"
    /\ files = <<>>
    /\ fileIdx = 1
    /\ numParcelMap = <<>>
    /\ communeMap = <<>>
    /\ inheritedCommune = [k \in ObjectPrototypeKeys |-> Undefined]
    /\ outNum = Previous
    /\ outComm = Previous
    /\ failure = "none"
    /\ log = <<>>
    /\ call = NoCall
    /\ simple = [state |-> "start"]
    /\ ApiIdle
    /\ DashboardIdle
    /\ StoreIdle

\* both builders select the files and set up their maps
BothStart ==
    /\ pc = "start"
    /\ files' = findParcelFiles(ReadDir(disk))
    /\ communeMap' = InitialCommuneMap
    /\ pc' = "features"
    /\ simple' = [state |-> "features", npm |-> <<>>,
                  inh |-> [k \in ObjectPrototypeKeys |-> Undefined], cm |-> <<>>,
                  outNum |-> Previous, outComm |-> Previous]
    /\ UNCHANGED <<disk, fileIdx, numParcelMap, inheritedCommune, outNum, outComm,
                   failure, log, call, api, dashboard, storeVars>>

\* both builders process the next feature of the current file
BothProcessFeature ==
    /\ pc = "features"
    /\ Len(log) < MaxFeatures
    /\ \E props \in SharedPool :
          LET richer == FeatureStep(State, props)
              simpler == FeatureStepSimple(simple, props)
          IN  /\ numParcelMap' = richer.npm
              /\ inheritedCommune' = richer.inh
              /\ communeMap' = richer.cm
              /\ simple' = [simple EXCEPT !.npm = simpler.npm, !.inh = simpler.inh,
                                          !.cm = simpler.cm]
              /\ log' = Append(log, [file |-> fileIdx, props |-> props, n |-> 1,
                                     bulk |-> FALSE])
    /\ UNCHANGED <<disk, pc, files, fileIdx, outNum, outComm, failure,
                   call, api, dashboard, storeVars>>

\* both builders pass to the next file
BothEndOfFile ==
    /\ pc = "features"
    /\ fileIdx < Len(files)
    /\ fileIdx' = fileIdx + 1
    /\ UNCHANGED <<disk, pc, files, numParcelMap, communeMap, inheritedCommune,
                   outNum, outComm, failure, log, call, simple, api, dashboard,
                   storeVars>>

\* both builders write their two lookups
BothWrite ==
    /\ pc = "features"
    /\ fileIdx = Len(files)
    /\ outNum' = Written(numParcelMap)
    /\ outComm' = Written(communeMap)
    /\ simple' = [simple EXCEPT !.state = "done", !.outNum = Written(simple.npm),
                                !.outComm = Written(simple.cm)]
    /\ pc' = "done"
    /\ UNCHANGED <<disk, files, fileIdx, numParcelMap, communeMap, inheritedCommune,
                   failure, log, call, api, dashboard, storeVars>>

BothNext ==
    \/ BothStart
    \/ BothProcessFeature
    \/ BothEndOfFile
    \/ BothWrite

BothBuilders == BothInit /\ [][BothNext]_vars

(* ------------------------------------------------------------------ *)
(* The API server and the dashboard's static fallback                   *)
(* ------------------------------------------------------------------ *)

\* number of requests the server is sent
MaxRequests == 3

\* a JavaScript object with the own properties o
Obj(o) == [t |-> "object", o |-> o]

\* a lookup file: missing, not JSON, or a JSON document
Absent == [kind |-> "absent"]

Invalid == [kind |-> "invalid"]

Json(value) == [kind |-> "json", value |-> value]

\* parcel lookups a builder may have written
ParcelDatas ==
    { (IdA1 :> [commune |-> Str(OFFICIAL_COMMUNES[5]),
                properties |-> ("Num_parcel" :> Str(IdA1))]) }

\* commune lookups a builder may have written: no sighting; two sightings of
\* KOAR; 1001 sightings of KOAR; the simpler builder's lookup of one sighting
CommuneDatas ==
    { InitialCommuneMap,
      [InitialCommuneMap EXCEPT ![OFFICIAL_COMMUNES[5]] =
          [count |-> 2, parcels |-> <<IdA1, IdB2>>]],
      [InitialCommuneMap EXCEPT ![OFFICIAL_COMMUNES[5]] =
          [count |-> ParcelsCap + 1, parcels |-> [i \in 1..ParcelsCap |-> IdB2]]],
      (OFFICIAL_COMMUNES[5] :> [count |-> 1, parcels |-> <<IdA1>>]) }

LookupFileStates(datas) ==
    {Absent, Invalid, Json(Null)} \cup {Json(Obj(d)) : d \in datas}

\* the :num of the requests for a parcel
RequestIds ==
    {IdA1, <<"Z","9">>, <<"c","o","n","s","t","r","u","c","t","o","r">>}

\* the :name of the requests for a commune
RequestNames ==
    { <<"K","O","A","R">>, <<"k","o","a","r">>, <<" ","k","o","a","r">>,
      <<"d","i","n","d","e","f","e","l","l","o">>, <<"B","a","l","a">>,
      <<"F","o","o">> }

\* getParcelLookup and getCommuneLookup that answer from an empty lookup after
\* a failed read without caching it
getLookupRetrying(cached, file) ==
    IF cached # Null THEN [cache |-> cached, lookup |-> cached, read |-> 0]
    ELSE IF file.kind = "json" /\ file.value # Null
    THEN [cache |-> file.value, lookup |-> file.value, read |-> 1]
    ELSE [cache |-> Null, lookup |-> Obj(<<>>), read |-> 1]

\* getParcelLookup and getCommuneLookup: the variable after the call, the
\* value returned and the readFileSync calls made.  readFileSync throws on a
\* missing file, JSON.parse on a file that is not JSON, and Object.keys on the
\* document null: the catch block caches {} for each.
getLookup(cached, file) ==
    IF cached # Null THEN [cache |-> cached, lookup |-> cached, read |-> 0]
    ELSE IF file.kind = "json" /\ file.value # Null
    THEN [cache |-> file.value, lookup |-> file.value, read |-> 1]
    ELSE [cache |-> Obj(<<>>), lookup |-> Obj(<<>>), read |-> 1]

\* lookup[key] is truthy: key is an own property (the lookups hold objects
\* only) or a member every object inherits
HasTruthy(lookup, key) == key \in DOMAIN lookup.o \/ key \in ObjectPrototypeKeys

\* a < b in the order of localeCompare, for upper-case names with spaces
CharOrder == <<" ">> \o UpperCase

CharRank(c) == CHOOSE i \in 1..Len(CharOrder) : CharOrder[i] = c

RECURSIVE NameBefore(_, _)
NameBefore(a, b) ==
    IF a = <<>> THEN b # <<>>
    ELSE IF b = <<>> THEN FALSE
    ELSE IF Head(a) = Head(b) THEN NameBefore(Tail(a), Tail(b))
    ELSE CharRank(Head(a)) < CharRank(Head(b))

\* the records of the set S, sorted by name
RECURSIVE SortByName(_)
SortByName(S) ==
    IF S = {} THEN <<>>
    ELSE LET first == CHOOSE x \in S : \A y \in S \ {x} : NameBefore(x.name, y.name)
         IN  <<first>> \o SortByName(S \ {first})

\* the value of communes in the answer to GET /api/communes
communesOfApi(lookup) ==
    SortByName({ [name |-> OFFICIAL_COMMUNES[i],
                  count |-> IF OFFICIAL_COMMUNES[i] \in DOMAIN lookup.o
                            THEN lookup.o[OFFICIAL_COMMUNES[i]].count ELSE 0]
                 : i \in 1..Len(OFFICIAL_COMMUNES) })

\* The transform of '/communes' in _handleStaticFileRequest.  Object.keys
\* lists the names in the order of the file, which the model does not keep:
\* they are listed by name.
communesOfStatic(data) ==
    SortByName({ [name |-> name, count |-> Len(data.o[name].parcels)]
                 : name \in DOMAIN data.o })

ApiInit ==
    /\ disk = [name \in DirNames |-> "absent"]
    /\ pc = "start"
    /\ files = <<>>
    /\ fileIdx = 1
    /\ numParcelMap = <<>>
    /\ communeMap = <<>>
    /\ inheritedCommune = [k \in ObjectPrototypeKeys |-> Undefined]
    /\ outNum = Previous
    /\ outComm = Previous
    /\ failure = "none"
    /\ log = <<>>
    /\ call = NoCall
    /\ SimpleIdle
    /\ \E p \in LookupFileStates(ParcelDatas), c \in LookupFileStates(CommuneDatas) :
          lookupFiles = [parcel |-> p, commune |-> c]
    /\ parcelLookup = Null
    /\ communeLookup = Null
    /\ reads = [parcel |-> 0, commune |-> 0]
    /\ served = [parcel |-> 0, commune |-> 0]
    /\ answer = [status |-> 0]
    /\ staticAnswer = [state |-> "none"]
    /\ DashboardIdle
    /\ StoreIdle

MoreRequests == served.parcel + served.commune < MaxRequests

\* app.get('/api/parcels/:num')
GetParcel ==
    /\ MoreRequests
    /\ \E id \in RequestIds :
          LET got == getLookup(parcelLookup, lookupFiles.parcel)
          IN  /\ parcelLookup' = got.cache
              /\ reads' = [reads EXCEPT !.parcel = @ + got.read]
              /\ served' = [served EXCEPT !.parcel = @ + 1]
              /\ answer' = IF HasTruthy(got.lookup, id)
                           THEN [status |-> 200, route |-> "parcel", param |-> id,
                                 success |-> TRUE,
                                 parcel |-> IF id \in DOMAIN got.lookup.o
                                            THEN got.lookup.o[id] ELSE Undefined]
                           ELSE [status |-> 404, route |-> "parcel", param |-> id,
                                 success |-> FALSE]
    /\ UNCHANGED <<run, call, simple, lookupFiles, communeLookup, staticAnswer,
                   dashboard, storeVars>>

\* app.get('/api/communes/:name')
GetCommune ==
    /\ MoreRequests
    /\ \E name \in RequestNames :
          LET got == getLookup(communeLookup, lookupFiles.commune)
              upper == ToUpperCase(name)
              communeName == IF upper \in DOMAIN COMMUNE_SPELLING_VARIANTS
                             THEN COMMUNE_SPELLING_VARIANTS[upper] ELSE upper
          IN  /\ communeLookup' = got.cache
              /\ reads' = [reads EXCEPT !.commune = @ + got.read]
              /\ served' = [served EXCEPT !.commune = @ + 1]
              /\ answer' =
                    IF SeqIncludes(OFFICIAL_COMMUNES, communeName)
                    THEN IF communeName \in DOMAIN got.lookup.o
                         THEN [status |-> 200, route |-> "commune", param |-> name,
                               success |-> TRUE, commune |-> got.lookup.o[communeName]]
                         ELSE [status |-> 200, route |-> "commune", param |-> name,
                               success |-> TRUE,
                               commune |-> [name |-> communeName, count |-> 0,
                                            parcels |-> <<>>]]
                    ELSE [status |-> 404, route |-> "commune", param |-> name,
                          success |-> FALSE]
    /\ UNCHANGED <<run, call, simple, lookupFiles, parcelLookup, staticAnswer,
                   dashboard, storeVars>>

\* app.get('/api/communes')
GetCommunes ==
    /\ MoreRequests
    /\ LET got == getLookup(communeLookup, lookupFiles.commune)
       IN  /\ communeLookup' = got.cache
           /\ reads' = [reads EXCEPT !.commune = @ + got.read]
           /\ served' = [served EXCEPT !.commune = @ + 1]
           /\ answer' = [status |-> 200, route |-> "communes", success |-> TRUE,
                         communes |-> communesOfApi(got.lookup)]
    /\ UNCHANGED <<run, call, simple, lookupFiles, parcelLookup, staticAnswer,
                   dashboard, storeVars>>

\* ApiService.get('/communes') with useDirectFileAccess: the dashboard fetches
\* the commune lookup itself; fetch or response.json() rejects on a missing or
\* invalid file and Object.keys throws on the document null
StaticGetCommunes ==
    /\ staticAnswer' =
          IF lookupFiles.commune.kind = "json" /\ lookupFiles.commune.value # Null
          THEN [state |-> "ok", success |-> TRUE,
                communes |-> communesOfStatic(lookupFiles.commune.value)]
          ELSE [state |-> "threw"]
    /\ UNCHANGED <<run, call, simple, lookupFiles, parcelLookup, communeLookup,
                   reads, served, answer, dashboard, storeVars>>

ApiNext ==
    \/ GetParcel
    \/ GetCommune
    \/ GetCommunes
    \/ StaticGetCommunes

Api == ApiInit /\ [][ApiNext]_vars

(* ------------------------------------------------------------------ *)
(* The dashboard: AI query form, analytics table, modals                *)
(* ------------------------------------------------------------------ *)

\* requests to /ai/analyze a session sends
MaxQueries == 2

\* activations of the analytics tab in a session
MaxActivations == 2

\* no builder runs
RunIdle ==
    /\ disk = [name \in DirNames |-> "absent"]
    /\ pc = "start"
    /\ files = <<>>
    /\ fileIdx = 1
    /\ numParcelMap = <<>>
    /\ communeMap = <<>>
    /\ inheritedCommune = [k \in ObjectPrototypeKeys |-> Undefined]
    /\ outNum = Previous
    /\ outComm = Previous
    /\ failure = "none"
    /\ log = <<>>

\* what the user may have typed into #aiQuery
QueryInputs == {<<>>, <<" ">>, <<"q">>, <<" ", "q">>}

\* the click handler of #queryBtn without the test of isQueryInProgress
SubmitOutcomeUnguarded(input, inProgress, containers, apiAvailable) ==
    IF Trim(input) = <<>> THEN "error"
    ELSE IF ~containers THEN "returned"
    ELSE IF ~apiAvailable THEN "failed"
    ELSE "requested"

\* The click handler of #queryBtn and the part of processQuery that runs
\* before its first await: "error" and "warning" are the messages shown,
\* "returned" the early return of processQuery, "failed" the throw before the
\* request (caught, and the finally block runs), "requested" the call of
\* api.post.
SubmitOutcome(input, inProgress, containers, apiAvailable) ==
    IF Trim(input) = <<>> THEN "error"
    ELSE IF inProgress THEN "warning"
    ELSE IF ~containers THEN "returned"
    ELSE IF ~apiAvailable THEN "failed"
    ELSE "requested"

\* the sequence s without its i-th element
RemoveAt(s, i) == [k \in 1..(Len(s) - 1) |-> IF k < i THEN s[k] ELSE s[k + 1]]

\* a click on #queryBtn (the example buttons click it too)
Submit ==
    /\ started < MaxQueries
    /\ \E input \in QueryInputs, containers \in BOOLEAN, apiAvailable \in BOOLEAN :
          LET o == SubmitOutcome(input, isQueryInProgress, containers, apiAvailable)
          IN  /\ aiMessage' = IF o \in {"error", "warning"} THEN o ELSE aiMessage
              /\ isQueryInProgress' = CASE o = "requested" -> TRUE
                                        [] o = "failed" -> FALSE
                                        [] OTHER -> isQueryInProgress
              /\ running' = IF o = "requested" THEN Append(running, "request")
                            ELSE running
              /\ started' = IF o = "requested" THEN started + 1 ELSE started
    /\ UNCHANGED <<run, call, simple, api, storeVars, sortColumn, sortDirection,
                   sortListeners, tableLoads, lastClick, activeClass, activeModal>>

\* api.post('/ai/analyze') settles: with success the call goes on to await
\* generateVisualization; a rejection or an answer without success throws,
\* and the finally block clears the flag
RequestSettles ==
    /\ \E i \in 1..Len(running), success \in BOOLEAN :
          /\ running[i] = "request"
          /\ IF success
             THEN /\ running' = [running EXCEPT ![i] = "visualize"]
                  /\ UNCHANGED isQueryInProgress
             ELSE /\ running' = RemoveAt(running, i)
                  /\ isQueryInProgress' = FALSE
    /\ UNCHANGED <<run, call, simple, api, storeVars, aiMessage, started,
                   sortColumn, sortDirection, sortListeners, tableLoads, lastClick,
                   activeClass, activeModal>>

\* generateVisualization settles, resolved or rejected: the finally block
VisualizationSettles ==
    /\ \E i \in 1..Len(running) :
          /\ running[i] = "visualize"
          /\ running' = RemoveAt(running, i)
    /\ isQueryInProgress' = FALSE
    /\ UNCHANGED <<run, call, simple, api, storeVars, aiMessage, started,
                   sortColumn, sortDirection, sortListeners, tableLoads, lastClick,
                   activeClass, activeModal>>

\* the data-column attributes of the headers of #communeTable
Columns == {"name", "count"}

\* the click listener setupTableSorting adds to a header
SortClick(sort, column) ==
    IF sort.column = column
    THEN [column |-> column,
          direction |-> IF sort.direction = "asc" THEN "desc" ELSE "asc"]
    ELSE [column |-> column, direction |-> "asc"]

\* a click event on a header that has n such listeners
RECURSIVE Dispatch(_, _, _)
Dispatch(sort, column, n) ==
    IF n = 0 THEN sort ELSE Dispatch(SortClick(sort, column), column, n - 1)

\* tabchange with tabId 'analytics': initDataTable runs up to its await
ActivateAnalyticsTab ==
    /\ sortListeners + tableLoads < MaxActivations
    /\ \E tableBody \in BOOLEAN :
          tableLoads' = IF tableBody THEN tableLoads + 1 ELSE tableLoads
    /\ UNCHANGED <<run, call, simple, api, storeVars, isQueryInProgress, aiMessage,
                   running, started, sortColumn, sortDirection, sortListeners,
                   lastClick, activeClass, activeModal>>

\* loadCommunesDataExtended settles: initDataTable goes on to
\* setupTableSorting when there is data
TableLoaded ==
    /\ tableLoads > 0
    /\ tableLoads' = tableLoads - 1
    /\ \E outcome \in {"data", "empty", "rejected"} :
          sortListeners' = IF outcome = "data" THEN sortListeners + 1
                           ELSE sortListeners
    /\ UNCHANGED <<run, call, simple, api, storeVars, isQueryInProgress, aiMessage,
                   running, started, sortColumn, sortDirection, lastClick,
                   activeClass, activeModal>>

\* the user clicks a header of the table
HeaderClick ==
    /\ \E column \in Columns :
          LET sort == [column |-> sortColumn, direction |-> sortDirection]
              after == Dispatch(sort, column, sortListeners)
          IN  /\ sortColumn' = after.column
              /\ sortDirection' = after.direction
              /\ lastClick' = [column |-> column, from |-> sort,
                               listeners |-> sortListeners]
    /\ UNCHANGED <<run, call, simple, api, storeVars, isQueryInProgress, aiMessage,
                   running, started, sortListeners, tableLoads, activeClass,
                   activeModal>>

\* the modal elements of the document
ModalIds == {"aboutModal", "helpModal"}

\* the ids openModal and closeModal are called with
CalledIds == ModalIds \cup {"noModal"}

closeModal(m, modalId) ==
    IF modalId \notin ModalIds THEN m
    ELSE [activeClass |-> m.activeClass \ {modalId}, activeModal |-> "null"]

openModal(m, modalId) ==
    IF modalId \notin ModalIds THEN m
    ELSE LET closed == IF m.activeModal # "null" THEN closeModal(m, m.activeModal)
                       ELSE m
         IN  [activeClass |-> closed.activeClass \cup {modalId},
              activeModal |-> modalId]

Modals == [activeClass |-> activeClass, activeModal |-> activeModal]

OpenModal ==
    /\ \E modalId \in CalledIds :
          /\ activeClass' = openModal(Modals, modalId).activeClass
          /\ activeModal' = openModal(Modals, modalId).activeModal
    /\ UNCHANGED <<run, call, simple, api, storeVars, isQueryInProgress, aiMessage,
                   running, started, sortColumn, sortDirection, sortListeners,
                   tableLoads, lastClick>>

CloseModal ==
    /\ \E modalId \in CalledIds :
          /\ activeClass' = closeModal(Modals, modalId).activeClass
          /\ activeModal' = closeModal(Modals, modalId).activeModal
    /\ UNCHANGED <<run, call, simple, api, storeVars, isQueryInProgress, aiMessage,
                   running, started, sortColumn, sortDirection, sortListeners,
                   tableLoads, lastClick>>

DashboardInit ==
    /\ RunIdle
    /\ call = NoCall
    /\ SimpleIdle
    /\ ApiIdle
    /\ DashboardIdle
    /\ StoreIdle

DashboardNext ==
    \/ Submit
    \/ RequestSettles
    \/ VisualizationSettles
    \/ ActivateAnalyticsTab
    \/ TableLoaded
    \/ HeaderClick
    \/ OpenModal
    \/ CloseModal

Dashboard == DashboardInit /\ [][DashboardNext]_vars

(* ------------------------------------------------------------------ *)
(* The store                                                            *)
(* ------------------------------------------------------------------ *)

\* calls of store operations in a session
MaxCalls == 3

\* the keys the store is called with: two the dashboard registers, and the
\* name of a member every plain object inherits
StoreKeys ==
    { <<"a","p","i">>, <<"c","o","m","m","u","n","e","s">> } \cup ObjectPrototypeKeys

StoreValues == {1, 2}

Callbacks == {"cb1", "cb2"}

\* obj[key] = value
SetKey(obj, key, value) ==
    [k \in DOMAIN obj \cup {key} |-> IF k = key THEN value ELSE obj[k]]

\* key in obj, for a plain object
KeyIn(key, obj) == key \in DOMAIN obj \/ key \in ObjectPrototypeKeys

\* _notifyListeners(key) once this._state is state: the callbacks invoked
\* with their argument, in order.  this._listeners[key] of an inherited name
\* is a function, which is truthy and has no forEach: the call throws.
notifyListeners(state, listeners, key) ==
    IF key \in DOMAIN listeners
    THEN [threw |-> FALSE,
          invoked |-> [i \in 1..Len(listeners[key]) |->
                          [callback |-> listeners[key][i], value |-> state[key]]]]
    ELSE IF key \in ObjectPrototypeKeys
    THEN [threw |-> TRUE, invoked |-> <<>>]
    ELSE [threw |-> FALSE, invoked |-> <<>>]

MoreCalls == returned.calls < MaxCalls

Outcome(op, key, value, result) ==
    [calls |-> returned.calls + 1, op |-> op, key |-> key, value |-> value,
     result |-> result]

\* register(key, value)
Register ==
    /\ MoreCalls
    /\ \E key \in StoreKeys, value \in StoreValues :
          LET state == SetKey(storeState, key, value)
              n == notifyListeners(state, storeListeners, key)
          IN  /\ storeState' = state
              /\ registered' = registered \cup {key}
              /\ notified' = n.invoked
              /\ returned' = Outcome("register", key, value,
                                     IF n.threw THEN "TypeError" ELSE "value")
    /\ UNCHANGED <<run, call, simple, api, dashboard, storeListeners>>

\* update(key, value)
Update ==
    /\ MoreCalls
    /\ \E key \in StoreKeys, value \in StoreValues :
          IF KeyIn(key, storeState)
          THEN LET state == SetKey(storeState, key, value)
                   n == notifyListeners(state, storeListeners, key)
               IN  /\ storeState' = state
                   /\ notified' = n.invoked
                   /\ returned' = Outcome("update", key, value,
                                          IF n.threw THEN "TypeError" ELSE "true")
          ELSE /\ storeState' = storeState
               /\ notified' = <<>>
               /\ returned' = Outcome("update", key, value, "false")
    /\ UNCHANGED <<run, call, simple, api, dashboard, registered, storeListeners>>

\* get(key)
Get ==
    /\ MoreCalls
    /\ \E key \in StoreKeys :
          /\ returned' = Outcome("get", key, 0,
                                 IF key \in DOMAIN storeState THEN "value"
                                 ELSE IF key \in ObjectPrototypeKeys THEN "inherited"
                                 ELSE "undefined")
    /\ notified' = <<>>
    /\ UNCHANGED <<run, call, simple, api, dashboard, storeState, registered,
                   storeListeners>>

\* subscribe(key, callback): this._listeners[key] of an inherited name is
\* truthy and has no push
Subscribe ==
    /\ MoreCalls
    /\ \E key \in StoreKeys, callback \in Callbacks :
          IF key \in DOMAIN storeListeners
          THEN /\ storeListeners' =
                     [storeListeners EXCEPT ![key] = Append(@, callback)]
               /\ returned' = Outcome("subscribe", key, callback, "unsubscribe")
          ELSE IF key \in ObjectPrototypeKeys
          THEN /\ storeListeners' = storeListeners
               /\ returned' = Outcome("subscribe", key, callback, "TypeError")
          ELSE /\ storeListeners' = SetKey(storeListeners, key, <<callback>>)
               /\ returned' = Outcome("subscribe", key, callback, "unsubscribe")
    /\ notified' = <<>>
    /\ UNCHANGED <<run, call, simple, api, dashboard, storeState, registered>>

\* the function subscribe(key, callback) returned is called
Unsubscribe ==
    /\ MoreCalls
    /\ \E key \in DOMAIN storeListeners, callback \in Callbacks :
          /\ \E i \in 1..Len(storeListeners[key]) : storeListeners[key][i] = callback
          /\ storeListeners' =
                [storeListeners EXCEPT
                    ![key] = SelectSeq(@, LAMBDA cb : cb # callback)]
          /\ returned' = Outcome("unsubscribe", key, callback, "undefined")
    /\ notified' = <<>>
    /\ UNCHANGED <<run, call, simple, api, dashboard, storeState, registered>>

StoreInit ==
    /\ RunIdle
    /\ call = NoCall
    /\ SimpleIdle
    /\ ApiIdle
    /\ DashboardIdle
    /\ StoreIdle

StoreNext ==
    \/ Register
    \/ Update
    \/ Get
    \/ Subscribe
    \/ Unsubscribe

Store == StoreInit /\ [][StoreNext]_vars

(* ------------------------------------------------------------------ *)
(* What the history says, computed apart from the builder's maps        *)
(* ------------------------------------------------------------------ *)

\* the identifier and the commune of the i-th entry of the history
NumAt(i) == findNumParcel(log[i].props)

CommuneAt(i) == resolveCommune(log[i].props)

\* the sightings of identifier id: the entries that carry it
SightingsOf(id) == {i \in 1..Len(log) : Truthy(NumAt(i)) /\ NumAt(i).s = id}

SightedIds == {NumAt(i).s : i \in {j \in 1..Len(log) : Truthy(NumAt(j))}}

\* the sightings of id that resolve to a commune
NamedSightingsOf(id) == {i \in SightingsOf(id) : Truthy(CommuneAt(i))}

Earliest(S) == CHOOSE i \in S : \A j \in S : i <= j

\* the identifier and the commune of every entry of the history
Resolved ==
    [i \in 1..Len(log) |-> [num |-> NumAt(i), commune |-> CommuneAt(i), n |-> log[i].n]]

\* the number of sightings (features that carry an identifier) among the first
\* i entries of r that are attributed to commune c
RECURSIVE SightingsAttributed(_, _, _)
SightingsAttributed(r, c, i) ==
    IF i = 0 THEN 0
    ELSE SightingsAttributed(r, c, i - 1)
         + (IF Truthy(r[i].num) /\ r[i].commune = Str(c) THEN r[i].n ELSE 0)

\* the last entry of the history names a commune outside the registry
OutsideRegistry(e) ==
    /\ Truthy(findNumParcel(e.props))
    /\ Truthy(resolveCommune(e.props))
    /\ resolveCommune(e.props).s \notin Registry

\* main() is past line 112: the aggregates were initialised
Initialised == pc # "start" /\ failure # "mkdir"

\* a step that processes a feature, and the feature it processes
FeatureProcessed == log' # log

Feature == log'[Len(log')]

(* ------------------------------------------------------------------ *)
(* Claims                                                               *)
(* ------------------------------------------------------------------ *)

\* C1: once the aggregates are initialised, and in the commune lookup written,
\* each of the 17 official communes is a key; a commune no sighting was
\* attributed to has count 0 and parcels [], also when no file was selected.
C1_RegistryComplete ==
    LET r == Resolved
        Complete(cm) ==
            \A c \in Registry :
                /\ c \in DOMAIN cm
                /\ SightingsAttributed(r, c, Len(r)) = 0
                     => cm[c] = [count |-> 0, parcels |-> <<>>]
    IN  /\ Cardinality(Registry) = 17
        /\ Initialised => Complete(communeMap)
        /\ outComm.state = "written" => Complete(outComm.content)

\* C1 witness: a run over no file at all has written the 17 zeroed aggregates
C1_Witness ==
    /\ pc = "done"
    /\ files = <<>>
    /\ outComm.state = "written"
    /\ Cardinality(DOMAIN outComm.content) = 17
    /\ \A c \in Registry : outComm.content[c] = [count |-> 0, parcels |-> <<>>]

\* C2: a Parcel Record that holds a non-null commune keeps that commune in
\* every later step, whatever is sighted later.
C2_CommuneNeverOverwritten ==
    [][\A id \in DOMAIN numParcelMap :
          Truthy(numParcelMap[id].commune)
             => /\ id \in DOMAIN numParcelMap'
                /\ numParcelMap'[id].commune = numParcelMap[id].commune]_vars

\* C2 witness: A1 was stored with a commune in the first file; a conflicting
\* commune and a null commune were sighted for it in the second
C2_Witness ==
    /\ IdA1 \in DOMAIN numParcelMap
    /\ \E i, j, k \in SightingsOf(IdA1) :
          /\ i = Earliest(SightingsOf(IdA1))
          /\ Truthy(CommuneAt(i))
          /\ log[i].file < log[j].file
          /\ Truthy(CommuneAt(j)) /\ CommuneAt(j) # CommuneAt(i)
          /\ i < k /\ ~Truthy(CommuneAt(k))
          /\ numParcelMap[IdA1].commune = CommuneAt(i)

\* C3: in the parcel lookup written, an identifier first sighted with a null
\* commune and later with a non-null one has a record whose commune is that
\* of its first sighting that resolved to a commune.
C3_BackfillFirstNonNull ==
    outNum.state = "written" =>
        \A id \in SightedIds :
            (/\ ~Truthy(CommuneAt(Earliest(SightingsOf(id))))
             /\ NamedSightingsOf(id) # {})
            => /\ id \in DOMAIN outNum.content
               /\ outNum.content[id].commune = CommuneAt(Earliest(NamedSightingsOf(id)))

\* C4: in the parcel lookup written, an identifier sighted more than once has
\* a record whose properties are the property bag of its earliest sighting.
C4_FirstPropertyBagKept ==
    outNum.state = "written" =>
        \A id \in SightedIds :
            (\/ Cardinality(SightingsOf(id)) > 1
             \/ \E i \in SightingsOf(id) : log[i].n > 1)
            => /\ id \in DOMAIN outNum.content
               /\ outNum.content[id].properties = log[Earliest(SightingsOf(id))].props

\* C5: in every state, and in the commune lookup written, no parcels sequence
\* is longer than 1000.
C5_ParcelsCapped ==
    /\ \A c \in DOMAIN communeMap : Len(communeMap[c].parcels) <= ParcelsCap
    /\ outComm.state = "written" =>
          \A c \in DOMAIN outComm.content : Len(outComm.content[c].parcels) <= ParcelsCap

\* C5 witness: a commune was counted more than 1000 times and lists 1000 parcels
C5_Witness ==
    \E c \in DOMAIN communeMap :
        /\ communeMap[c].count > ParcelsCap
        /\ Len(communeMap[c].parcels) = ParcelsCap

\* C6: the step taken on a file of invalid JSON changes neither map, raises
\* no failure and moves the loop to the next file; a run never ends on a parse
\* failure, and a run that ends has written both outputs.
C6_InvalidJsonSkipped ==
    /\ [][(AtFile /\ disk[files[fileIdx]] = "invalid")
            => /\ numParcelMap' = numParcelMap
               /\ communeMap' = communeMap
               /\ inheritedCommune' = inheritedCommune
               /\ failure' = "none"
               /\ pc' = "files"
               /\ fileIdx' = fileIdx + 1]_vars
    /\ [](failure # "parse")
    /\ [](pc = "done" => outNum.state = "written" /\ outComm.state = "written")

\* C6 witness: the first file was invalid JSON, a feature of the second file
\* was indexed and both outputs are written
C6_Witness ==
    /\ pc = "done"
    /\ Len(files) = 2
    /\ disk[files[1]] = "invalid"
    /\ \E i \in 1..Len(log) : log[i].file = 2 /\ Truthy(NumAt(i))
    /\ outNum.state = "written" /\ outNum.content # <<>>
    /\ outComm.state = "written"

\* C7: no run ends on the failure to read a selected file.
C7_UnreadableFileNotFatal == ~(pc = "crashed" /\ failure = "read")

\* C8: the count of every official commune is the number of sightings (the
\* features that carry an identifier) attributed to it so far, each sighting
\* of a repeated identifier counted; the commune lookup written holds it.
C8_CountIsSightings ==
    LET r == Resolved
    IN  /\ Initialised =>
              \A c \in Registry : communeMap[c].count = SightingsAttributed(r, c, Len(r))
        /\ outComm.state = "written" =>
              \A c \in Registry :
                  outComm.content[c].count = SightingsAttributed(r, c, Len(r))

\* C8 witness: A1 was attributed to one commune three times, in both files
C8_Witness ==
    /\ outComm.state = "written"
    /\ \E c \in Registry :
          /\ outComm.content[c].count = 3
          /\ \A i \in 1..Len(log) : NumAt(i) = Str(IdA1) /\ CommuneAt(i) = Str(c)
          /\ \E i, j \in 1..Len(log) : log[i].file # log[j].file

\* C9 as stated: every feature with an identifier whose commune is a name
\* outside the registry has that name as the commune of its Parcel Record, and
\* the commune map has registry names only as keys.
C9_OutsideNameAlwaysStored ==
    /\ DOMAIN communeMap \subseteq Registry
    /\ \A i \in 1..Len(log) :
          OutsideRegistry(log[i])
             => /\ NumAt(i).s \in DOMAIN numParcelMap
                /\ numParcelMap[NumAt(i).s].commune = CommuneAt(i)

\* C9 amended: a feature with an identifier whose commune is a name outside
\* the registry changes no aggregate, and the commune map has registry names
\* only as keys; the name becomes the commune of the identifier's Parcel
\* Record when the feature creates the record or the record's commune was
\* null, and a record that holds a commune keeps it.
C9_OutsideNameKeptOffAggregates ==
    /\ [](DOMAIN communeMap \subseteq Registry)
    /\ [][(FeatureProcessed /\ OutsideRegistry(Feature))
            => LET id == findNumParcel(Feature.props).s
                   name == resolveCommune(Feature.props)
               IN  /\ communeMap' = communeMap
                   /\ id \in DOMAIN numParcelMap'
                        => numParcelMap'[id].commune =
                              IF id \in DOMAIN numParcelMap
                                    /\ Truthy(numParcelMap[id].commune)
                              THEN numParcelMap[id].commune
                              ELSE name]_vars

\* C9 witness: the lookup written holds A1 with the commune FOO, which is no
\* official commune, and no aggregate counted it
C9_Witness ==
    /\ outNum.state = "written" /\ outComm.state = "written"
    /\ IdA1 \in DOMAIN outNum.content
    /\ outNum.content[IdA1].commune = Str(<<"F","O","O">>)
    /\ \A c \in DOMAIN outComm.content : outComm.content[c].count = 0

\* C10: the step that processes a feature without a resolvable identifier
\* changes neither the parcel map nor the commune map.
C10_NoIdentifierNoEffect ==
    [][(FeatureProcessed /\ ~Truthy(findNumParcel(Feature.props)))
          => /\ numParcelMap' = numParcelMap
             /\ communeMap' = communeMap
             /\ inheritedCommune' = inheritedCommune]_vars

\* C10 witness: features that name the commune KOAR and carry no identifier
\* were processed, and both lookups written are as a run without them
C10_Witness ==
    /\ pc = "done"
    /\ Len(log) = 2
    /\ \A i \in 1..Len(log) : ~Truthy(NumAt(i)) /\ CommuneAt(i) = Str(<<"K","O","A","R">>)
    /\ outNum.content = <<>>
    /\ outComm.content = InitialCommuneMap

\* the canonical form of a raw value that is not taken for absent
Canonical(v) ==
    LET spelled == ToUpperCase(Trim(String(v)))
    IN  IF spelled \in DOMAIN COMMUNE_SPELLING_VARIANTS
        THEN Str(COMMUNE_SPELLING_VARIANTS[spelled])
        ELSE Str(spelled)

\* C11 as stated: the canonicalizer returns null exactly for null, undefined
\* and the empty string; for every other string or JSON scalar it returns the
\* variant map's value for the trimmed upper-cased string form, or that form
\* itself, registry name or not.
C11_NullOnlyForAbsentOrEmpty ==
    Returned("normalizeName") =>
        IF call.arg \in {Null, Undefined, Str(<<>>)}
        THEN call.ret = Null
        ELSE call.ret # Null /\ call.ret = Canonical(call.arg)

\* C11 amended: the canonicalizer returns null exactly for the falsy inputs:
\* null, undefined, the empty string, the number 0 and false; for every other
\* string or JSON scalar it returns the variant map's value for the trimmed
\* upper-cased string form, or that form itself, registry name or not.
C11_NullOnlyForFalsy ==
    Returned("normalizeName") =>
        IF call.arg \in {Null, Undefined, Str(<<>>), Num(0), Bool(FALSE)}
        THEN call.ret = Null
        ELSE /\ call.ret # Null
             /\ call.ret = Canonical(call.arg)
             /\ call.arg \in {Str(s) : s \in NamedStrings} =>
                   call.ret.s \in Registry \cup {<<"F","O","O">>, <<>>}

\* C11 witness: the number 0 was canonicalized to null
C11_Witness ==
    /\ Returned("normalizeName")
    /\ call.arg = Num(0)
    /\ call.ret = Null

\* C12: canonicalizing the canonicalizer's result gives that result again, for
\* every input; a registry name and a variant map value are returned unchanged.
C12_Idempotent ==
    /\ (call.fn = "normalizeName" /\ call.stage = 2) => call.again = call.ret
    /\ (Returned("normalizeName") /\ call.arg.t = "string"
          /\ call.arg.s \in Registry
                \cup {COMMUNE_SPELLING_VARIANTS[k] : k \in DOMAIN COMMUNE_SPELLING_VARIANTS})
        => call.ret = call.arg

\* the value of the first direct commune field that is truthy, if any
DirectEvidence(props) ==
    LET hits == {i \in 1..Len(CommuneFields) : Truthy(Prop(props, CommuneFields[i]))}
    IN  IF hits = {} THEN Undefined
        ELSE props[CommuneFields[CHOOSE i \in hits : \A j \in hits : i <= j]]

\* r is what the source_file fallback is to return for the hint v: the first
\* registry name that is a substring of the upper-cased hint; if there is
\* none, the first whose underscore form is; if there is none, null
HintResult(v, r) ==
    LET hint == ToUpperCase(String(v))
        N == 1..Len(OFFICIAL_COMMUNES)
        Literal(i) == Includes(hint, OFFICIAL_COMMUNES[i])
        Underscored(i) == Includes(hint, ReplaceSpaces(OFFICIAL_COMMUNES[i]))
    IN  \/ \E i \in N : /\ Literal(i)
                        /\ \A j \in 1..(i - 1) : ~Literal(j)
                        /\ r = Str(OFFICIAL_COMMUNES[i])
        \/ /\ \A j \in N : ~Literal(j)
           /\ \E i \in N : /\ Underscored(i)
                           /\ \A j \in 1..(i - 1) : ~Underscored(j)
                           /\ r = Str(OFFICIAL_COMMUNES[i])
        \/ /\ \A j \in N : ~Literal(j) /\ ~Underscored(j)
           /\ r = Null

\* C13: a feature whose commune evidence is a known variant spelling resolves
\* to the variant's registry name, both when the spelling is the value of the
\* first truthy direct field and when, no direct field being truthy, it is
\* part of the source_file hint.
C13_VariantAppliedEverywhere ==
    Returned("resolveCommune") =>
        LET props == call.arg
            direct == DirectEvidence(props)
            hint == Prop(props, "source_file")
        IN  \A k \in DOMAIN COMMUNE_SPELLING_VARIANTS :
                /\ (Truthy(direct) /\ ToUpperCase(Trim(String(direct))) = k)
                      => call.ret = Str(COMMUNE_SPELLING_VARIANTS[k])
                /\ (~Truthy(direct) /\ Truthy(hint)
                       /\ Includes(ToUpperCase(String(hint)), k))
                      => call.ret = Str(COMMUNE_SPELLING_VARIANTS[k])

\* C14 as stated: when a direct field is truthy the commune is the canonical
\* form of the first such field and the source_file hint is not consulted;
\* the hint decides only when no direct field is truthy.
C14_HintOnlyWithoutDirectField ==
    Returned("resolveCommune") =>
        LET props == call.arg
            direct == DirectEvidence(props)
            hint == Prop(props, "source_file")
        IN  IF Truthy(direct) THEN call.ret = Canonical(direct)
            ELSE IF Truthy(hint) THEN HintResult(hint, call.ret)
            ELSE call.ret = Null

\* C14 amended: when a direct field is truthy and the canonical form of the
\* first such field is not empty, the commune is that form and the hint is not
\* consulted; the hint decides when no direct field is truthy or the first
\* truthy one is blank; without a hint the commune is that blank form or null.
C14_HintWhenDirectFieldBlank ==
    Returned("resolveCommune") =>
        LET props == call.arg
            direct == DirectEvidence(props)
            hint == Prop(props, "source_file")
        IN  IF Truthy(direct) /\ Canonical(direct) # Str(<<>>)
            THEN call.ret = Canonical(direct)
            ELSE IF Truthy(hint) THEN HintResult(hint, call.ret)
            ELSE IF Truthy(direct) THEN call.ret = Str(<<>>)
            ELSE call.ret = Null

\* C14 witness: commune is blank and CCRCA names KOAR; the hint names
\* SINTHIOU MALEME and decided
C14_Witness ==
    /\ Returned("resolveCommune")
    /\ DOMAIN call.arg = {"commune", "CCRCA", "source_file"}
    /\ call.arg["commune"] = Str(<<" ">>)
    /\ call.arg["CCRCA"] = Str(<<"K","O","A","R">>)
    /\ call.ret = Str(OFFICIAL_COMMUNES[6])

\* C15: the source_file fallback returns the first registry name, in registry
\* order, that is a substring of the upper-cased hint; if none is, the first
\* whose form with underscores for spaces is; otherwise null.  The hint
\* unjoined_parcels_SINTHIOU_MALEME.geojson gives SINTHIOU MALEME.
C15_LiteralThenUnderscore ==
    Returned("extractCommuneFromSourceFile") =>
        /\ IF Truthy(call.arg) THEN HintResult(call.arg, call.ret)
           ELSE call.ret = Null
        /\ call.arg = Str(<<"u","n","j","o","i","n","e","d","_","p","a","r","c","e","l","s","_",
                            "S","I","N","T","H","I","O","U","_","M","A","L","E","M","E",
                            ".","g","e","o","j","s","o","n">>)
              => call.ret = Str(OFFICIAL_COMMUNES[6])

\* C15 witness: a hint with SINTHIOU_MALEME and MISSIRAH gave MISSIRAH, the
\* name found by the literal pass
C15_Witness ==
    /\ Returned("extractCommuneFromSourceFile")
    /\ Truthy(call.arg)
    /\ Includes(String(call.arg), ReplaceSpaces(OFFICIAL_COMMUNES[6]))
    /\ Includes(String(call.arg), OFFICIAL_COMMUNES[9])
    /\ call.ret = Str(OFFICIAL_COMMUNES[9])

\* C16: the identifier resolver returns the string form of the value of the
\* first key of its list that is truthy, an earlier key winning over a later
\* one, and null when no listed key is truthy.
C16_FirstTruthyKey ==
    Returned("findNumParcel") =>
        LET props == call.arg
            N == 1..Len(NumParcelKeys)
            Has(i) == NumParcelKeys[i] \in DOMAIN props /\ Truthy(props[NumParcelKeys[i]])
        IN  /\ NumParcelKeys =
                  <<"Num_parcel", "NUM_PARCEL", "num_parcel", "numParcel", "num",
                    "ID", "id", "Id_parcel", "IDPARCEL">>
            /\ \/ \E i \in N : /\ Has(i)
                               /\ \A j \in 1..(i - 1) : ~Has(j)
                               /\ call.ret = Str(String(props[NumParcelKeys[i]]))
               \/ /\ \A i \in N : ~Has(i)
                  /\ call.ret = Null

\* C16 witness: Num_parcel is the number 12 and IDPARCEL is "A1"; the
\* identifier is "12"
C16_Witness ==
    /\ Returned("findNumParcel")
    /\ DOMAIN call.arg = {"Num_parcel", "IDPARCEL"}
    /\ call.arg["Num_parcel"] = Num(12)
    /\ call.arg["IDPARCEL"] = Str(IdA1)
    /\ call.ret = Str(<<"1","2">>)

\* the pattern list of a copy of findParcelFiles
PatternsOf(builder) ==
    CASE builder = "richer" -> preferPatterns
      [] builder = "simpler" -> preferPatternsSimple
      [] builder = "loader" -> preferPatternsLoader

\* the patterns of the list that a file name matches
MatchingPatterns(patterns, name) ==
    {i \in 1..Len(patterns) : Matches(patterns[i], name)}

\* the position of x in the sequence r that holds it
IndexOf(r, x) == CHOOSE i \in 1..Len(r) : r[i] = x

\* C17: the File Selector returns each file that matches a pattern exactly
\* once and no other file, ordered by the rank of the first pattern each file
\* matches; when no file matches, the result is empty.
C17_SelectedOnceInRankOrder ==
    Returned("findParcelFiles") =>
        LET patterns == PatternsOf(call.arg.builder)
            listing == call.arg.listing
            r == call.ret
            Rank(name) ==
                CHOOSE i \in MatchingPatterns(patterns, name) :
                    \A j \in MatchingPatterns(patterns, name) : i <= j
            matching == {listing[i] : i \in {j \in 1..Len(listing) :
                            MatchingPatterns(patterns, listing[j]) # {}}}
        IN  /\ {r[i] : i \in 1..Len(r)} = matching
            /\ Distinct(r)
            /\ \A i, j \in 1..Len(r) : i < j => Rank(r[i]) <= Rank(r[j])
            /\ matching = {} => r = <<>>

\* C17 witness: the loader found a file that matches three of its patterns
\* and one that matches one, next to a file that matches none; it returned the
\* two, once each
C17_Witness ==
    /\ Returned("findParcelFiles")
    /\ call.arg.builder = "loader"
    /\ Len(call.arg.listing) = 3
    /\ \E i, j \in 1..3 :
          /\ Cardinality(MatchingPatterns(preferPatternsLoader, call.arg.listing[i])) = 3
          /\ Cardinality(MatchingPatterns(preferPatternsLoader, call.arg.listing[j])) = 1
    /\ Len(call.ret) = 2

\* C18: in the list every copy of the File Selector returns, the file of a
\* parcel category with both the normalized and the source_commune marker
\* stands before every other variant of the category, and the plain file of
\* the category after every other variant.
C18_MostNormalizedFirst ==
    Returned("findParcelFiles") =>
        LET r == call.ret
            selected == {r[i] : i \in 1..Len(r)}
        IN  \A both, plain, other \in selected :
                (/\ Len(both) = 4 /\ Len(plain) = 2 /\ Len(other) \in 2..4
                 /\ both[2] = "normalized" /\ both[3] = "source_commune"
                 /\ both[1] = other[1] /\ plain[1] = other[1])
                => /\ other # both => IndexOf(r, both) < IndexOf(r, other)
                   /\ other # plain => IndexOf(r, other) < IndexOf(r, plain)

\* C19: an output file is written only once the loop over the selected files
\* has ended, and a run that an input file aborted has left both output files
\* as they were.
C19_OutputsWrittenAtEnd ==
    /\ [](outNum.state = "written" \/ outComm.state = "written"
            => fileIdx > Len(files) /\ pc \in {"writeComm", "done", "crashed"})
    /\ []((pc = "crashed" /\ failure \in {"read", "type"})
            => outNum = Previous /\ outComm = Previous)
    /\ [][(outNum' # outNum \/ outComm' # outComm)
            => pc \in {"files", "writeComm"} /\ fileIdx > Len(files)]_vars

\* C19 witness: a first file was indexed, the second could not be read, and
\* both output files are those of the previous run
C19_Witness ==
    /\ pc = "crashed"
    /\ failure = "read"
    /\ fileIdx = 2
    /\ numParcelMap # <<>>
    /\ outNum = Previous
    /\ outComm = Previous

Scenario ==
    << ("Num_parcel" :> Str(IdA1))
          @@ ("commune" :> Str(<<"d","i","n","d","e","f","e","l","l","o">>)),
       ("Num_parcel" :> Str(IdA1)),
       ("IDPARCEL" :> Str(IdB2)) @@ ("CCRCA" :> Str(<<"K","O","A","R">>)) >>

\* the run read one file whose features are those of the scenario, and ended
ScenarioRun ==
    /\ pc = "done"
    /\ Len(files) = 1
    /\ [i \in 1..Len(log) |-> log[i].props] = Scenario
    /\ \A i \in 1..Len(log) : log[i].n = 1

\* C20: after a run over one file with the features {Num_parcel A1, commune
\* dindefello}, {Num_parcel A1}, {IDPARCEL B2, CCRCA KOAR}, the parcel lookup
\* has the keys A1 (commune DINDEFELO, the first bag) and B2 (commune KOAR, its
\* bag) and no other; the commune lookup has DINDEFELO with count 1 and
\* parcels [A1], KOAR with count 1 and parcels [B2], and every other official
\* commune with count 0 and no parcels.
C20_Scenario ==
    ScenarioRun =>
        /\ outNum = Written(
              (IdA1 :> [commune |-> Str(<<"D","I","N","D","E","F","E","L","O">>),
                        properties |-> Scenario[1]])
              @@ (IdB2 :> [commune |-> Str(<<"K","O","A","R">>),
                           properties |-> Scenario[3]]))
        /\ outComm = Written(
              [c \in Registry |->
                  IF c = <<"D","I","N","D","E","F","E","L","O">>
                  THEN [count |-> 1, parcels |-> <<IdA1>>]
                  ELSE IF c = <<"K","O","A","R">>
                  THEN [count |-> 1, parcels |-> <<IdB2>>]
                  ELSE [count |-> 0, parcels |-> <<>>]])

\* C20 witness: the run of the scenario has ended with both lookups written
C20_Witness ==
    /\ ScenarioRun
    /\ outNum.state = "written"
    /\ outComm.state = "written"
    /\ Cardinality(DOMAIN outNum.content) = 2

\* the feature carries its commune in direct fields only, spelled as a
\* registry name
PlainFeature(props) ==
    /\ Truthy(Prop(props, "source_file"))
          => extractCommuneFromSourceFile(props["source_file"]) = Null
    /\ Truthy(DirectEvidence(props))
          => ToUpperCase(Trim(String(DirectEvidence(props)))) \in Registry

PlainRun == \A i \in 1..Len(log) : PlainFeature(log[i].props)

\* C21: run on the same files, whose features carry commune names in direct
\* fields only and spelled as registry names, the simpler builder holds and
\* writes the same parcel lookup as the richer one; its commune lookup has the
\* communes with a sighting as keys, each with the count and the parcels the
\* richer builder has for it.
C21_SimplerAgreesOnPlainInput ==
    (pc \in {"features", "done"} /\ PlainRun) =>
        /\ simple.npm = numParcelMap
        /\ DOMAIN simple.cm = {c \in Registry : communeMap[c].count > 0}
        /\ \A c \in DOMAIN simple.cm : simple.cm[c] = communeMap[c]
        /\ pc = "done" =>
              /\ simple.outNum = outNum
              /\ simple.outComm = Written(simple.cm)
              /\ outComm = Written(communeMap)

\* C21 witness: both builders have written their lookups after three plain
\* features in two files, one of them spelled " Koar" and one without commune
C21_Witness ==
    /\ pc = "done"
    /\ simple.state = "done"
    /\ PlainRun
    /\ Len(log) = 3
    /\ log[1].file # log[3].file
    /\ \E i, j \in 1..3 :
          /\ Prop(log[i].props, "CCRCA") = Str(<<" ","K","o","a","r">>)
          /\ ~Truthy(DirectEvidence(log[j].props)) /\ Truthy(findNumParcel(log[j].props))
    /\ simple.outNum = outNum
    /\ simple.outNum.content # <<>>

\* the lookup file behind a cached lookup
FileOf(f) == IF f = "parcel" THEN lookupFiles.parcel ELSE lookupFiles.commune

CachedOf(f) == IF f = "parcel" THEN parcelLookup ELSE communeLookup

\* the read of the file fails: it is missing, not JSON, or the document null
ReadThrows(file) == file.kind # "json" \/ file.value = Null

\* C22: a lookup file is not read before the first request that needs it and
\* is read exactly once from then on, whatever the requests; when that read
\* fails, the empty lookup is cached, and otherwise the document of the file.
C22_ReadLazilyAndOnce ==
    \A f \in {"parcel", "commune"} :
       /\ served[f] = 0 => (reads[f] = 0 /\ CachedOf(f) = Null)
       /\ served[f] > 0 =>
             /\ reads[f] = 1
             /\ CachedOf(f) = IF ReadThrows(FileOf(f)) THEN Obj(<<>>)
                              ELSE FileOf(f).value

\* C22 witness: three requests have needed a commune lookup file that is not
\* JSON, the parcel lookup file has not been read, and the empty commune
\* lookup is cached after one read
C22_Witness ==
    /\ served.commune = 3
    /\ served.parcel = 0
    /\ lookupFiles.commune = Invalid
    /\ lookupFiles.parcel.kind = "json"
    /\ reads = [parcel |-> 0, commune |-> 1]
    /\ parcelLookup = Null
    /\ communeLookup = Obj(<<>>)

\* C23: a request for a commune by name gets a success answer exactly when the
\* name canonicalizes (normalizeName) to an official commune, and the answer
\* then carries the lookup entry of that commune, or the zero-count default
\* when the lookup has none.
C23_ResolvesAsCanonicalizer ==
    (answer.status # 0 /\ answer.route = "commune") =>
        LET c == normalizeName(Str(answer.param))
        IN  IF c.t = "string" /\ c.s \in Registry
            THEN /\ answer.status = 200
                 /\ answer.commune =
                       IF c.s \in DOMAIN communeLookup.o THEN communeLookup.o[c.s]
                       ELSE [name |-> c.s, count |-> 0, parcels |-> <<>>]
            ELSE answer.status = 404

\* C24: when the API and the static fallback have both answered '/communes'
\* from the same commune lookup file, the two answers list the same commune
\* names with the same count for each name.
C24_StaticEquivalentToApi ==
    (/\ answer.status = 200
     /\ answer.route = "communes"
     /\ staticAnswer.state = "ok"
     /\ ~ReadThrows(lookupFiles.commune)) =>
        {answer.communes[i] : i \in DOMAIN answer.communes}
          = {staticAnswer.communes[i] : i \in DOMAIN staticAnswer.communes}

\* the smaller of two numbers
Least(a, b) == IF a <= b THEN a ELSE b

\* C25: in every state of a run, for every commune aggregate: parcels has
\* min(count, 1000) entries, count is the number of sightings attributed to
\* the commune, and the k-th entry of parcels is the identifier of the k-th
\* of these sightings in processing order (an aggregate without a sighting
\* is zeroed).
C25_ParcelsAreFirstSightings ==
    [](LET r == Resolved
           sighted == {r[i].commune.s :
                          i \in {j \in 1..Len(r) : Truthy(r[j].num) /\ Truthy(r[j].commune)}}
       IN  \A c \in DOMAIN communeMap :
              IF c \notin sighted
              THEN communeMap[c] = [count |-> 0, parcels |-> <<>>]
              ELSE /\ Len(communeMap[c].parcels) = Least(communeMap[c].count, ParcelsCap)
                   /\ communeMap[c].count = SightingsAttributed(r, c, Len(r))
                   /\ \A i \in 1..Len(r) :
                         (Truthy(r[i].num) /\ r[i].commune = Str(c)) =>
                            LET before == SightingsAttributed(r, c, i - 1)
                            IN  \A k \in (before + 1)..Least(before + r[i].n, ParcelsCap) :
                                   communeMap[c].parcels[k] = r[i].num.s)

\* C25 witness: a commune was counted 1001 times; its parcels are the run of
\* equal identifiers and then another identifier as the 1000th entry
C25_Witness ==
    \E c \in DOMAIN communeMap :
        /\ communeMap[c].count = ParcelsCap + 1
        /\ Len(communeMap[c].parcels) = ParcelsCap
        /\ communeMap[c].parcels[1] = IdB2
        /\ communeMap[c].parcels[ParcelsCap] = IdA1

\* C26: in the lookups a run has written, every identifier listed in the
\* parcels of commune c is a key of the parcel lookup, and the commune of
\* that record is c.
C26_IndexesConsistent ==
    (outNum.state = "written" /\ outComm.state = "written") =>
        \A c \in DOMAIN outComm.content :
            \A k \in 1..Len(outComm.content[c].parcels) :
                LET id == outComm.content[c].parcels[k]
                IN  /\ id \in DOMAIN outNum.content
                    /\ outNum.content[id].commune = Str(c)

\* C27: isQueryInProgress is true exactly while a processQuery call awaits
\* its request or its visualization, at most one call does, and a step taken
\* while a call is running starts no request and no second call; the warning
\* is shown only by a submit rejected while a query is running.
C27_OneQueryInFlight ==
    /\ []((isQueryInProgress <=> running # <<>>) /\ Len(running) <= 1)
    /\ [][/\ running # <<>> => (started' = started /\ Len(running') <= Len(running))
          /\ aiMessage' # aiMessage /\ aiMessage' = "warning" =>
                (isQueryInProgress /\ running' = running)]_vars

\* C27 witness: the first query has reached its visualization, the flag is
\* set, and a submit made meanwhile was rejected with the warning without
\* starting a second request
C27_Witness ==
    /\ running = <<"visualize">>
    /\ isQueryInProgress
    /\ aiMessage = "warning"
    /\ started = 1

\* C28: after a click on a header of the table that was set up, the sort is
\* what one run of the click listener makes of the sort before the click: the
\* direction toggled when the column was the sort column, the column with
\* direction 'asc' otherwise.
C28_ClickSortsOnce ==
    (lastClick.column # "none" /\ lastClick.listeners >= 1) =>
        [column |-> sortColumn, direction |-> sortDirection]
          = SortClick(lastClick.from, lastClick.column)

\* C29: at most one modal element carries the class active, and activeModal
\* is that element when there is one and null otherwise.
C29_OneModalOpen ==
    /\ Cardinality(activeClass) <= 1
    /\ activeClass = {} => activeModal = "null"
    /\ \A modal \in activeClass : activeModal = modal

\* C30: a call update(key, value) for a key registered before sets the
\* value, invokes the key's listeners with it and returns true; for a key
\* never registered it returns false, leaves the state unchanged and invokes
\* no listener.
C30_UpdateOnlyRegistered ==
    [][(returned'.calls # returned.calls /\ returned'.op = "update") =>
          LET key == returned'.key
              value == returned'.value
          IN  IF key \in registered
              THEN /\ storeState' = SetKey(storeState, key, value)
                   /\ returned'.result = "true"
                   /\ notified' =
                         IF key \in DOMAIN storeListeners
                         THEN [i \in 1..Len(storeListeners[key]) |->
                                  [callback |-> storeListeners[key][i], value |-> value]]
                         ELSE <<>>
              ELSE /\ storeState' = storeState
                   /\ returned'.result = "false"
                   /\ notified' = <<>>]_vars

====
